---- MODULE Spec2Model ----
(***************************************************************************)
(* logfire-pg: a PostgreSQL wire-protocol front end for the Logfire HTTP    *)
(* query API.  The repository holds two builds of the server:               *)
(*   "streaming" : src/cmd/logfire_pg/main.go  (Arrow IPC stream transport) *)
(*   "buffered"  : src/unnamed/part_000        (JSON document transport)    *)
(* Both register the callbacks auth and wireHandler with the psql-wire      *)
(* library; the library and the upstream HTTP API are the environment.      *)
(*                                                                         *)
(* Text is modelled as a sequence of one-character strings, so that         *)
(* whitespace normalisation, pattern matching and URL encoding are          *)
(* computed character by character as the Go code does.                     *)
(***************************************************************************)
EXTENDS Integers, Sequences, FiniteSets, TLC

(***************************************************************************)
(* Bounds of the model.                                                    *)
(***************************************************************************)
\* total number of wireHandler calls (queries parsed) in one behaviour
MaxQueries == 2
\* largest number of rows in one record batch / JSON column
MaxRows == 3
\* deepest nesting of List in the type descriptors given to the type mapping
MaxListDepth == 2
\* most elements of a list value given to the value conversion
MaxListLen == 5
\* most invocations of one prepared statement's row handler
MaxRuns == 2

(***************************************************************************)
(* Text helpers (Go strings package).                                      *)
(***************************************************************************)
\* IsSpace that knows the blank only
IsSpaceBlankOnly(ch) == ch = " "

\* unicode.IsSpace restricted to the characters TLA+ strings can spell
IsSpace(ch) == ch \in {" ", "\t", "\n", "\r", "\f"}

\* strings.Fields: the maximal runs of non-space characters of s, in order.
\* A field starts at every non-space character that begins s or follows a
\* space, and runs up to the character before the next space (or to the end).
Fields(s) ==
    LET n == Len(s)
        isStart(i) == ~IsSpace(s[i]) /\ (i = 1 \/ IsSpace(s[i - 1]))
        starts == SelectSeq([i \in 1..n |-> i], isStart)
        stop(i) == LET sp == {j \in i..n : IsSpace(s[j])}
                   IN  IF sp = {} THEN n
                       ELSE (CHOOSE j \in sp : \A k \in sp : j <= k) - 1
    IN  [f \in 1..Len(starts) |-> SubSeq(s, starts[f], stop(starts[f]))]

RECURSIVE Join(_, _)
\* strings.Join(elems, sep): the elements concatenated with sep between them
Join(elems, sep) ==
    IF Len(elems) = 0 THEN <<>>
    ELSE IF Len(elems) = 1 THEN elems[1]
    ELSE LET h == Len(elems) \div 2
         IN  Join(SubSeq(elems, 1, h), sep) \o sep
                 \o Join(SubSeq(elems, h + 1, Len(elems)), sep)

\* line 73: normalized := strings.Join(strings.Fields(query), " ")
Normalize(query) == Join(Fields(query), <<" ">>)

\* strings.HasPrefix / strings.HasSuffix on character sequences
HasPrefix(s, p) == Len(s) >= Len(p) /\ SubSeq(s, 1, Len(p)) = p
HasSuffix(s, p) == Len(s) >= Len(p) /\ SubSeq(s, Len(s) - Len(p) + 1, Len(s)) = p

\* index of the first occurrence of ch in s at or after position from, 0 if none
IndexFrom(s, ch, from) ==
    LET hits == {i \in from..Len(s) : s[i] = ch}
    IN  IF hits = {} THEN 0 ELSE CHOOSE i \in hits : \A j \in hits : i <= j

(***************************************************************************)
(* The catalog queries psql sends for \dt and \d (main.go lines 76-91).    *)
(***************************************************************************)
dtPattern ==
    <<"S", "E", "L", "E", "C", "T", " ", "n", ".", "n", "s", "p", "n", "a", "m", "e", " ", "a",
      "s", " ", "\"", "S", "c", "h", "e", "m", "a", "\"", ",", " ", "c", ".", "r", "e", "l",
      "n", "a", "m", "e", " ", "a", "s", " ", "\"", "N", "a", "m", "e", "\"", ",", " ", "C",
      "A", "S", "E", " ", "c", ".", "r", "e", "l", "k", "i", "n", "d", " ", "W", "H", "E", "N",
      " ", "'", "r", "'", " ", "T", "H", "E", "N", " ", "'", "t", "a", "b", "l", "e", "'", " ",
      "W", "H", "E", "N", " ", "'", "v", "'", " ", "T", "H", "E", "N", " ", "'", "v", "i", "e",
      "w", "'", " ", "W", "H", "E", "N", " ", "'", "m", "'", " ", "T", "H", "E", "N", " ", "'",
      "m", "a", "t", "e", "r", "i", "a", "l", "i", "z", "e", "d", " ", "v", "i", "e", "w", "'",
      " ", "W", "H", "E", "N", " ", "'", "i", "'", " ", "T", "H", "E", "N", " ", "'", "i", "n",
      "d", "e", "x", "'", " ", "W", "H", "E", "N", " ", "'", "S", "'", " ", "T", "H", "E", "N",
      " ", "'", "s", "e", "q", "u", "e", "n", "c", "e", "'", " ", "W", "H", "E", "N", " ", "'",
      "t", "'", " ", "T", "H", "E", "N", " ", "'", "T", "O", "A", "S", "T", " ", "t", "a", "b",
      "l", "e", "'", " ", "W", "H", "E", "N", " ", "'", "f", "'", " ", "T", "H", "E", "N", " ",
      "'", "f", "o", "r", "e", "i", "g", "n", " ", "t", "a", "b", "l", "e", "'", " ", "W", "H",
      "E", "N", " ", "'", "p", "'", " ", "T", "H", "E", "N", " ", "'", "p", "a", "r", "t", "i",
      "t", "i", "o", "n", "e", "d", " ", "t", "a", "b", "l", "e", "'", " ", "W", "H", "E", "N",
      " ", "'", "I", "'", " ", "T", "H", "E", "N", " ", "'", "p", "a", "r", "t", "i", "t", "i",
      "o", "n", "e", "d", " ", "i", "n", "d", "e", "x", "'", " ", "E", "N", "D", " ", "a", "s",
      " ", "\"", "T", "y", "p", "e", "\"", ",", " ", "p", "g", "_", "c", "a", "t", "a", "l",
      "o", "g", ".", "p", "g", "_", "g", "e", "t", "_", "u", "s", "e", "r", "b", "y", "i", "d",
      "(", "c", ".", "r", "e", "l", "o", "w", "n", "e", "r", ")", " ", "a", "s", " ", "\"",
      "O", "w", "n", "e", "r", "\"", " ", "F", "R", "O", "M", " ", "p", "g", "_", "c", "a",
      "t", "a", "l", "o", "g", ".", "p", "g", "_", "c", "l", "a", "s", "s", " ", "c", " ", "L",
      "E", "F", "T", " ", "J", "O", "I", "N", " ", "p", "g", "_", "c", "a", "t", "a", "l", "o",
      "g", ".", "p", "g", "_", "n", "a", "m", "e", "s", "p", "a", "c", "e", " ", "n", " ", "O",
      "N", " ", "n", ".", "o", "i", "d", " ", "=", " ", "c", ".", "r", "e", "l", "n", "a", "m",
      "e", "s", "p", "a", "c", "e", " ", "L", "E", "F", "T", " ", "J", "O", "I", "N", " ", "p",
      "g", "_", "c", "a", "t", "a", "l", "o", "g", ".", "p", "g", "_", "a", "m", " ", "a", "m",
      " ", "O", "N", " ", "a", "m", ".", "o", "i", "d", " ", "=", " ", "c", ".", "r", "e", "l",
      "a", "m", " ", "W", "H", "E", "R", "E", " ", "c", ".", "r", "e", "l", "k", "i", "n", "d",
      " ", "I", "N", " ", "(", "'", "r", "'", ",", "'", "p", "'", ",", "'", "'", ")", " ", "A",
      "N", "D", " ", "n", ".", "n", "s", "p", "n", "a", "m", "e", " ", "<", ">", " ", "'", "p",
      "g", "_", "c", "a", "t", "a", "l", "o", "g", "'", " ", "A", "N", "D", " ", "n", ".", "n",
      "s", "p", "n", "a", "m", "e", " ", "!", "~", " ", "'", "^", "p", "g", "_", "t", "o", "a",
      "s", "t", "'", " ", "A", "N", "D", " ", "n", ".", "n", "s", "p", "n", "a", "m", "e", " ",
      "<", ">", " ", "'", "i", "n", "f", "o", "r", "m", "a", "t", "i", "o", "n", "_", "s", "c",
      "h", "e", "m", "a", "'", " ", "A", "N", "D", " ", "p", "g", "_", "c", "a", "t", "a", "l",
      "o", "g", ".", "p", "g", "_", "t", "a", "b", "l", "e", "_", "i", "s", "_", "v", "i", "s",
      "i", "b", "l", "e", "(", "c", ".", "o", "i", "d", ")", " ", "O", "R", "D", "E", "R", " ",
      "B", "Y", " ", "1", ",", "2", ";">>

dPatternPrefix ==
    <<"S", "E", "L", "E", "C", "T", " ", "c", ".", "o", "i", "d", ",", " ", "n", ".", "n", "s",
      "p", "n", "a", "m", "e", ",", " ", "c", ".", "r", "e", "l", "n", "a", "m", "e", " ", "F",
      "R", "O", "M", " ", "p", "g", "_", "c", "a", "t", "a", "l", "o", "g", ".", "p", "g", "_",
      "c", "l", "a", "s", "s", " ", "c", " ", "L", "E", "F", "T", " ", "J", "O", "I", "N", " ",
      "p", "g", "_", "c", "a", "t", "a", "l", "o", "g", ".", "p", "g", "_", "n", "a", "m", "e",
      "s", "p", "a", "c", "e", " ", "n", " ", "O", "N", " ", "n", ".", "o", "i", "d", " ", "=",
      " ", "c", ".", "r", "e", "l", "n", "a", "m", "e", "s", "p", "a", "c", "e", " ", "W", "H",
      "E", "R", "E", " ", "c", ".", "r", "e", "l", "n", "a", "m", "e", " ", "O", "P", "E", "R",
      "A", "T", "O", "R", "(", "p", "g", "_", "c", "a", "t", "a", "l", "o", "g", ".", "~", ")",
      " ", "'", "^", "(">>

dPatternSuffix ==
    <<")", "$", "'", " ", "C", "O", "L", "L", "A", "T", "E", " ", "p", "g", "_", "c", "a", "t",
      "a", "l", "o", "g", ".", "d", "e", "f", "a", "u", "l", "t", " ", "A", "N", "D", " ", "p",
      "g", "_", "c", "a", "t", "a", "l", "o", "g", ".", "p", "g", "_", "t", "a", "b", "l", "e",
      "_", "i", "s", "_", "v", "i", "s", "i", "b", "l", "e", "(", "c", ".", "o", "i", "d", ")",
      " ", "O", "R", "D", "E", "R", " ", "B", "Y", " ", "2", ",", " ", "3", ";">>

dSchemaPatternPrefix ==
    <<"S", "E", "L", "E", "C", "T", " ", "c", ".", "o", "i", "d", ",", " ", "n", ".", "n", "s",
      "p", "n", "a", "m", "e", ",", " ", "c", ".", "r", "e", "l", "n", "a", "m", "e", " ", "F",
      "R", "O", "M", " ", "p", "g", "_", "c", "a", "t", "a", "l", "o", "g", ".", "p", "g", "_",
      "c", "l", "a", "s", "s", " ", "c", " ", "L", "E", "F", "T", " ", "J", "O", "I", "N", " ",
      "p", "g", "_", "c", "a", "t", "a", "l", "o", "g", ".", "p", "g", "_", "n", "a", "m", "e",
      "s", "p", "a", "c", "e", " ", "n", " ", "O", "N", " ", "n", ".", "o", "i", "d", " ", "=",
      " ", "c", ".", "r", "e", "l", "n", "a", "m", "e", "s", "p", "a", "c", "e", " ", "W", "H",
      "E", "R", "E", " ", "c", ".", "r", "e", "l", "n", "a", "m", "e", " ", "O", "P", "E", "R",
      "A", "T", "O", "R", "(", "p", "g", "_", "c", "a", "t", "a", "l", "o", "g", ".", "~", ")",
      " ", "'", "^", "(">>

dSchemaPatternMiddle ==
    <<")", "$", "'", " ", "C", "O", "L", "L", "A", "T", "E", " ", "p", "g", "_", "c", "a", "t",
      "a", "l", "o", "g", ".", "d", "e", "f", "a", "u", "l", "t", " ", "A", "N", "D", " ", "n",
      ".", "n", "s", "p", "n", "a", "m", "e", " ", "O", "P", "E", "R", "A", "T", "O", "R", "(",
      "p", "g", "_", "c", "a", "t", "a", "l", "o", "g", ".", "~", ")", " ", "'", "^", "(">>

dSchemaPatternSuffix ==
    <<")", "$", "'", " ", "C", "O", "L", "L", "A", "T", "E", " ", "p", "g", "_", "c", "a", "t",
      "a", "l", "o", "g", ".", "d", "e", "f", "a", "u", "l", "t", " ", "O", "R", "D", "E", "R",
      " ", "B", "Y", " ", "2", ",", " ", "3", ";">>

(***************************************************************************)
(* DetectPsqlCommandQuery (main.go lines 71-100).                          *)
(***************************************************************************)
\* the result triple (detectedCommand, suggestedQuery, isPsqlCommand)
Detected(cmd, suggestion) ==
    [detectedCommand |-> cmd, suggestedQuery |-> suggestion, isPsqlCommand |-> TRUE]

NotDetected ==
    [detectedCommand |-> <<>>, suggestedQuery |-> <<>>, isPsqlCommand |-> FALSE]

\* dPattern.FindStringSubmatch(normalized): the pattern is anchored, and the
\* group ([^)]+) takes the characters up to the first ")" after the prefix,
\* which must be at least one; the rest must be exactly the suffix.
\* Result: <<>> for no match, else <<tableName>>.
dPatternMatch(normalized) ==
    IF ~HasPrefix(normalized, dPatternPrefix) THEN <<>>
    ELSE LET from == Len(dPatternPrefix) + 1
             close == IndexFrom(normalized, ")", from)
         IN  IF close = 0 \/ close = from THEN <<>>
             ELSE IF SubSeq(normalized, close, Len(normalized)) # dPatternSuffix
                  THEN <<>>
                  ELSE <<SubSeq(normalized, from, close - 1)>>

\* dSchemaPattern.FindStringSubmatch(normalized): two groups ([^)]+), the
\* table name and then the schema name.  <<>> or <<tableName, schemaName>>.
dSchemaPatternMatch(normalized) ==
    IF ~HasPrefix(normalized, dSchemaPatternPrefix) THEN <<>>
    ELSE LET from1 == Len(dSchemaPatternPrefix) + 1
             close1 == IndexFrom(normalized, ")", from1)
         IN  IF close1 = 0 \/ close1 = from1 THEN <<>>
             ELSE LET rest == SubSeq(normalized, close1, Len(normalized))
                  IN  IF ~HasPrefix(rest, dSchemaPatternMiddle) THEN <<>>
                      ELSE LET from2 == Len(dSchemaPatternMiddle) + 1
                               close2 == IndexFrom(rest, ")", from2)
                           IN  IF close2 = 0 \/ close2 = from2 THEN <<>>
                               ELSE IF SubSeq(rest, close2, Len(rest))
                                          # dSchemaPatternSuffix
                                    THEN <<>>
                                    ELSE << SubSeq(normalized, from1, close1 - 1),
                                            SubSeq(rest, from2, close2 - 1) >>

ShowTables == <<"s", "h", "o", "w", " ", "t", "a", "b", "l", "e", "s", ";">>

ShowColumnsFrom ==
    <<"s", "h", "o", "w", " ", "c", "o", "l", "u", "m", "n", "s", " ", "f", "r", "o", "m", " ">>

DetectPsqlCommandQuery(query) ==
    LET describe(d, ds) ==
            IF d # <<>>
            THEN Detected(<<"\\", "d", " ">> \o d[1], ShowColumnsFrom \o d[1] \o <<";">>)
            ELSE IF ds # <<>>
            THEN Detected(<<"\\", "d", " ">> \o ds[2] \o <<".">> \o ds[1],
                          ShowColumnsFrom \o ds[2] \o <<".">> \o ds[1] \o <<";">>)
            ELSE NotDetected
        detect(normalized) ==
            IF normalized = dtPattern
            THEN Detected(<<"\\", "d", "t">>, ShowTables)
            ELSE describe(dPatternMatch(normalized), dSchemaPatternMatch(normalized))
    IN  detect(Normalize(query))

(***************************************************************************)
(* The queries clients send in the model.                                  *)
(***************************************************************************)
\* s with every space replaced by the run ws, and ws put before and after it
Respace(s, ws) ==
    ws \o Join([i \in 1..Len(s) |-> IF s[i] = " " THEN ws ELSE <<s[i]>>], <<>>) \o ws

\* "SELECT  1\n"
SelectOne == <<"S", "E", "L", "E", "C", "T", " ", " ", "1", "\n">>

\* "\tSELECT 1+1,  '%' ;"
SelectSum ==
    <<"\t", "S", "E", "L", "E", "C", "T", " ", "1", "+", "1", ",", " ", " ", "'", "%", "'",
      " ", ";">>

\* psql's query for \d spans
DescribeSpans == dPatternPrefix \o <<"s", "p", "a", "n", "s">> \o dPatternSuffix

\* psql's query for \d public.records
DescribePublicRecords ==
    dSchemaPatternPrefix \o <<"r", "e", "c", "o", "r", "d", "s">>
        \o dSchemaPatternMiddle \o <<"p", "u", "b", "l", "i", "c">>
        \o dSchemaPatternSuffix

Queries ==
    { SelectOne, SelectSum, dtPattern, Respace(dtPattern, <<"\n", " ">>),
      DescribeSpans, DescribePublicRecords, SubSeq(dtPattern, 1, Len(dtPattern) - 1) }

\* DetectPsqlCommandQuery on the queries of the model, computed once
Detection == [q \in Queries |-> DetectPsqlCommandQuery(q)]

(***************************************************************************)
(* The upstream HTTP request built by executeQuery.                        *)
(***************************************************************************)
queryUrl == "https://logfire-us.pydantic.dev/v1/query"

\* characters url.QueryEscape leaves alone (RFC 3986 unreserved)
Unreserved ==
    { "a", "b", "c", "d", "e", "f", "g", "h", "i", "j", "k", "l", "m",
      "n", "o", "p", "q", "r", "s", "t", "u", "v", "w", "x", "y", "z",
      "A", "B", "C", "D", "E", "F", "G", "H", "I", "J", "K", "L", "M",
      "N", "O", "P", "Q", "R", "S", "T", "U", "V", "W", "X", "Y", "Z",
      "0", "1", "2", "3", "4", "5", "6", "7", "8", "9", "-", "_", ".", "~" }

\* %XX of every other character the model's texts use
PercentCode ==
    "!" :> <<"%", "2", "1">> @@
    "\"" :> <<"%", "2", "2">> @@
    "$" :> <<"%", "2", "4">> @@
    "'" :> <<"%", "2", "7">> @@
    "(" :> <<"%", "2", "8">> @@
    ")" :> <<"%", "2", "9">> @@
    "," :> <<"%", "2", "C">> @@
    ";" :> <<"%", "3", "B">> @@
    "<" :> <<"%", "3", "C">> @@
    "=" :> <<"%", "3", "D">> @@
    ">" :> <<"%", "3", "E">> @@
    "^" :> <<"%", "5", "E">> @@
    "\t" :> <<"%", "0", "9">> @@
    "\n" :> <<"%", "0", "A">> @@
    "\r" :> <<"%", "0", "D">> @@
    "\f" :> <<"%", "0", "C">> @@
    "+" :> <<"%", "2", "B">> @@
    "%" :> <<"%", "2", "5">> @@
    "*" :> <<"%", "2", "A">> @@
    "\\" :> <<"%", "5", "C">>

\* url.QueryEscape of one character
EscapeChar(ch) ==
    IF ch \in Unreserved THEN <<ch>>
    ELSE IF ch = " " THEN <<"+">>
    ELSE PercentCode[ch]

\* url.QueryEscape(s): the escapes of the characters of s, concatenated
QueryEscape(s) == Join([i \in 1..Len(s) |-> EscapeChar(s[i])], <<>>)

\* the probe query "SELECT 1" of auth
ProbeQuery == <<"S", "E", "L", "E", "C", "T", " ", "1">>

\* url.QueryEscape on the texts the model sends upstream, computed once
Escaped == [q \in Queries \cup {ProbeQuery} |-> QueryEscape(q)]

\* req.URL.RawQuery after q.Add("sql", sql); q.Encode()
RawQuery(sql) ==
    <<"s", "q", "l", "=">>
        \o (IF sql \in DOMAIN Escaped THEN Escaped[sql] ELSE QueryEscape(sql))

\* Request with the Encode step forgotten: the text goes out unescaped
RequestUnencoded(sql, token) ==
    [ method |-> "GET", url |-> queryUrl, rawQuery |-> <<"s", "q", "l", "=">> \o sql,
      authorization |-> "Bearer " \o token,
      accept |-> "application/vnd.apache.arrow.stream" ]

\* the GET request of cmd/logfire_pg/main.go (asks for the Arrow stream)
Request(sql, token) ==
    [ method |-> "GET", url |-> queryUrl, rawQuery |-> RawQuery(sql),
      authorization |-> "Bearer " \o token,
      accept |-> "application/vnd.apache.arrow.stream" ]

\* the GET request of the JSON build (no Accept header)
RequestBuffered(sql, token) ==
    [ method |-> "GET", url |-> queryUrl, rawQuery |-> RawQuery(sql),
      authorization |-> "Bearer " \o token, accept |-> "" ]

(***************************************************************************)
(* Errors and small values.                                                *)
(***************************************************************************)
\* the nil error
NoErr == [fmt |-> "<nil>", args |-> <<>>]

\* fmt.Errorf(format, args...): the format and its arguments, in order
Errorf(format, args) == [fmt |-> format, args |-> args]

\* psqlerr.WithSeverity(psqlerr.WithCode(err, code), severity)
WireError(err, code, severity) == [cause |-> err, code |-> code, severity |-> severity]

\* no error returned to the protocol layer
NoWireError == WireError(NoErr, "", "")

Digits == <<"0", "1", "2", "3", "4", "5", "6", "7", "8", "9">>

RECURSIVE Itoa(_)
\* the %d rendering of a number n >= 0
Itoa(n) ==
    IF n < 10 THEN <<Digits[n + 1]>>
    ELSE Itoa(n \div 10) \o <<Digits[(n % 10) + 1]>>

\* context.Context as far as the server uses it: the values bound to
\* readTokenCtxKey{}, newest first; <<>> is a context with no credential
EmptyCtx == <<>>

\* WithValue with its result thrown away: the context stays as it was
WithValueDropped(ctx, password) == ctx

\* context.WithValue(ctx, readTokenCtxKey{}, password)
WithValue(ctx, password) == <<password>> \o ctx

\* a credential kept process-wide instead of in the connection's context
CtxValueShared(ctx) == "tokA"

\* ctx.Value(readTokenCtxKey{}).(string); the cast panics on an empty context
CtxValue(ctx) == ctx[1]

(***************************************************************************)
(* Upstream HTTP responses (the environment's answers).                    *)
(***************************************************************************)
NoBody == [kind |-> "none"]

\* client.Do fails: no response at all
Unreachable == [status |-> 0, body |-> NoBody]

\* recorded as the answer of a call that sent no request
Unanswered == [status |-> -1, body |-> NoBody]

TextBody(text) == [kind |-> "text", text |-> text]

\* a body that is neither a JSON document nor an Arrow IPC stream
GarbageBody == [kind |-> "garbage"]

\* an Arrow IPC stream: its schema, its record batches, and whether the
\* stream breaks (reader.Err() # nil) after the last batch listed
ArrowBody(schema, batches, broken) ==
    [kind |-> "arrow", schema |-> schema, batches |-> batches, broken |-> broken]

\* a JSON document {"columns": [...]}
JsonBody(columns) == [kind |-> "json", columns |-> columns]

\* io.ReadAll(resp.Body) as text
BodyText(body) == IF body.kind = "text" THEN body.text ELSE <<>>

(***************************************************************************)
(* executeQuery.                                                           *)
(***************************************************************************)
TransportError == Errorf("dial tcp: connection refused", <<>>)

\* cmd/logfire_pg/main.go: returns the open response body as a stream.
\* opened/closed count the response bodies this call opened and closed.
executeQuery(sql, token, resp) ==
    LET Do(req) ==
        IF resp.status = 0
        THEN [ request |-> req, body |-> NoBody, opened |-> 0, closed |-> 0,
               err |-> Errorf("failed to execute query: %w", <<TransportError>>) ]
        ELSE IF resp.status # 200
        THEN [ request |-> req, body |-> NoBody, opened |-> 1, closed |-> 1,
               err |-> Errorf("query failed. Status code: %d, body: %s",
                              <<Itoa(resp.status), BodyText(resp.body)>>) ]
        ELSE [ request |-> req, body |-> resp.body, opened |-> 1, closed |-> 0,
               err |-> NoErr ]
    IN  Do(Request(sql, token))

\* the JSON build: decodes the whole document; the deferred Close runs on
\* every path after client.Do succeeded
executeQueryBuffered(sql, token, resp) ==
    LET Do(req) ==
        IF resp.status = 0
        THEN [ request |-> req, queryResp |-> <<>>, opened |-> 0, closed |-> 0,
               err |-> Errorf("failed to execute query: %w", <<TransportError>>) ]
        ELSE IF resp.status # 200
        THEN [ request |-> req, queryResp |-> <<>>, opened |-> 1, closed |-> 1,
               err |-> Errorf("query failed. Status code: %d, body: %s",
                              <<Itoa(resp.status), BodyText(resp.body)>>) ]
        ELSE IF resp.body.kind # "json"
        THEN [ request |-> req, queryResp |-> <<>>, opened |-> 1, closed |-> 1,
               err |-> Errorf("failed to parse response: %w", <<>>) ]
        ELSE [ request |-> req, queryResp |-> resp.body.columns, opened |-> 1,
               closed |-> 1, err |-> NoErr ]
    IN  Do(RequestBuffered(sql, token))

(***************************************************************************)
(* JSON values as encoding/json decodes them into interface{}.             *)
(***************************************************************************)
JStr(s) == [t |-> "string", v |-> s]
JNum(n) == [t |-> "number", v |-> n]
JBool(b) == [t |-> "bool", v |-> b]
JNull == [t |-> "null"]
JArr(s) == [t |-> "array", v |-> s]
JObj(f) == [t |-> "object", v |-> f]

(***************************************************************************)
(* arrowTypeToPgOid: upstream column type -> PostgreSQL type OID.          *)
(* OIDs carry the names of github.com/lib/pq/oid.                          *)
(***************************************************************************)
Mapped(o) == [oid |-> o, err |-> NoErr]
Unmapped(e) == [oid |-> "0", err |-> e]

\* an Arrow data type: [id |-> arrow.Type] and, for a list, its element type
ArrowType(id) == [id |-> id]
ListOf(elem) == [id |-> "LIST", elem |-> elem]

\* main.go lines 160-175: the array OID of an element OID
ArrayOid(innerOid) ==
    CASE innerOid = "T_text" -> Mapped("T__text")
      [] innerOid = "T_bool" -> Mapped("T__bool")
      [] innerOid = "T_int4" -> Mapped("T__int4")
      [] innerOid = "T_int8" -> Mapped("T__int8")
      [] innerOid = "T_float8" -> Mapped("T__float8")
      [] innerOid = "T_date" -> Mapped("T__date")
      [] OTHER -> Unmapped(Errorf("unsupported list inner type: %v", <<innerOid>>))

\* a mapping that gives every type it does not know the OID of text
arrowTypeToPgOidUnknownAsText(dt) ==
    IF dt.id = "INT64" THEN Mapped("T_int8") ELSE Mapped("T_text")

RECURSIVE arrowTypeToPgOid(_)
\* cmd/logfire_pg/main.go lines 131-179
arrowTypeToPgOid(dt) ==
    CASE dt.id \in {"STRING", "LARGE_STRING"} -> Mapped("T_text")
      [] dt.id = "BOOL" -> Mapped("T_bool")
      [] dt.id = "INT32" -> Mapped("T_int4")
      [] dt.id = "INT64" -> Mapped("T_int8")
      [] dt.id = "UINT16" -> Mapped("T_int4")
      [] dt.id = "UINT32" -> Mapped("T_int8")
      [] dt.id = "UINT64" -> Mapped("T_int8")
      [] dt.id = "FLOAT64" -> Mapped("T_float8")
      [] dt.id = "DATE32" -> Mapped("T_date")
      [] dt.id = "TIMESTAMP" -> Mapped("T_timestamptz")
      [] dt.id = "LIST" ->
            LET inner == arrowTypeToPgOid(dt.elem)
            IN  IF inner.err # NoErr THEN Unmapped(inner.err)
                ELSE ArrayOid(inner.oid)
      [] OTHER -> Unmapped(Errorf("unsupported arrow type: %v", <<dt.id>>))

\* ScalarOidBuffered with UInt32 narrowed to int4
ScalarOidBufferedNarrow(columnName, typeStr) ==
    CASE typeStr = "Utf8" -> Mapped("T_text")
      [] typeStr = "JSON" -> Mapped("T_json")
      [] typeStr = "Boolean" -> Mapped("T_bool")
      [] typeStr \in {"Int32", "UInt16", "UInt32"} -> Mapped("T_int4")
      [] typeStr = "Int64" -> Mapped("T_int8")
      [] typeStr = "Float64" -> Mapped("T_float8")
      [] typeStr = "Date32" -> Mapped("T_date")
      [] OTHER -> Unmapped(Errorf("column '%s' has unsupported datatype: %s",
                                  <<columnName, typeStr>>))

\* part_000 lines 236-257: a datatype given as a JSON string
ScalarOidBuffered(columnName, typeStr) ==
    CASE typeStr = "Utf8" -> Mapped("T_text")
      [] typeStr = "JSON" -> Mapped("T_json")
      [] typeStr = "Boolean" -> Mapped("T_bool")
      [] typeStr = "Int32" -> Mapped("T_int4")
      [] typeStr = "Int64" -> Mapped("T_int8")
      [] typeStr = "UInt16" -> Mapped("T_int4")
      [] typeStr = "UInt32" -> Mapped("T_int8")
      [] typeStr = "Float64" -> Mapped("T_float8")
      [] typeStr = "Date32" -> Mapped("T_date")
      [] OTHER -> Unmapped(Errorf("column '%s' has unsupported datatype: %s",
                                  <<columnName, typeStr>>))

\* part_000 lines 266-288: the inner datatype of a List, a JSON string
ListOidBuffered(columnName, innerType) ==
    CASE innerType = "Utf8" -> Mapped("T__text")
      [] innerType = "JSON" -> Mapped("T__json")
      [] innerType = "Boolean" -> Mapped("T__bool")
      [] innerType = "Int32" -> Mapped("T__int4")
      [] innerType = "Int64" -> Mapped("T__int8")
      [] innerType = "UInt16" -> Mapped("T__int4")
      [] innerType = "UInt32" -> Mapped("T__int8")
      [] innerType = "Float64" -> Mapped("T__float8")
      [] innerType = "Date32" -> Mapped("T__date")
      [] OTHER -> Unmapped(Errorf("column '%s' has unsupported List inner datatype: %s",
                                  <<columnName, innerType>>))

\* part_000 lines 233-315
arrowTypeToPgOidBuffered(columnName, datatype) ==
    IF datatype.t = "string" THEN ScalarOidBuffered(columnName, datatype.v)
    ELSE IF datatype.t = "object"
    THEN IF "List" \in DOMAIN datatype.v
         THEN LET listDef == datatype.v["List"]
              IN  IF /\ listDef.t = "object"
                     /\ "datatype" \in DOMAIN listDef.v
                     /\ listDef.v["datatype"].t = "string"
                  THEN ListOidBuffered(columnName, listDef.v["datatype"].v)
                  ELSE Unmapped(Errorf("column '%s' has invalid List definition: %v",
                                       <<columnName>>))
         ELSE IF "Timestamp" \in DOMAIN datatype.v
         THEN Mapped("T_timestamptz")
         ELSE Unmapped(Errorf("column '%s' has unsupported complex datatype: %v",
                              <<columnName>>))
    ELSE IF datatype.t = "array"
    THEN IF /\ Len(datatype.v) >= 2
            /\ datatype.v[1].t = "string"
            /\ datatype.v[1].v = "Microsecond"
         THEN Mapped("T_timestamptz")
         ELSE Unmapped(Errorf("column '%s' has unsupported array datatype: %v",
                              <<columnName>>))
    ELSE Unmapped(Errorf("column '%s' has invalid datatype format: expected string, map, or array, got %T",
                         <<columnName>>))

(***************************************************************************)
(* auth: the clear-text password callback.                                 *)
(***************************************************************************)
\* auth without the check of the username
authAnyUsername(ctx, username, password, resp) ==
    LET probed(r) ==
        IF r.err # NoErr
        THEN [ ctx |-> ctx, authorized |-> FALSE,
               err |-> Errorf("authentication failed: %w", <<r.err>>),
               requests |-> <<r.request>>, opened |-> r.opened, closed |-> r.closed ]
        ELSE [ ctx |-> WithValue(ctx, password), authorized |-> TRUE,
               err |-> NoErr, requests |-> <<r.request>>,
               opened |-> r.opened, closed |-> r.closed + 1 ]
    IN  probed(executeQuery(ProbeQuery, password, resp))

\* cmd/logfire_pg/main.go lines 247-264: any 200 answer authorizes; the
\* body is closed unread
auth(ctx, username, password, resp) ==
    IF username = ""
    THEN [ ctx |-> ctx, authorized |-> FALSE,
           err |-> Errorf("username cannot be empty", <<>>),
           requests |-> <<>>, opened |-> 0, closed |-> 0 ]
    ELSE LET probed(r) ==
                 IF r.err # NoErr
                 THEN [ ctx |-> ctx, authorized |-> FALSE,
                        err |-> Errorf("authentication failed: %w", <<r.err>>),
                        requests |-> <<r.request>>, opened |-> r.opened,
                        closed |-> r.closed ]
                 ELSE [ ctx |-> WithValue(ctx, password), authorized |-> TRUE,
                        err |-> NoErr, requests |-> <<r.request>>,
                        opened |-> r.opened, closed |-> r.closed + 1 ]
         IN  probed(executeQuery(ProbeQuery, password, resp))

\* part_000 lines 127-160: the probe's answer must be one column holding
\* the one value 1
authBuffered(ctx, username, password, resp) ==
    IF username = ""
    THEN [ ctx |-> ctx, authorized |-> FALSE,
           err |-> Errorf("username cannot be empty", <<>>),
           requests |-> <<>>, opened |-> 0, closed |-> 0 ]
    ELSE LET refuse(r, e) == [ ctx |-> ctx, authorized |-> FALSE, err |-> e,
                               requests |-> <<r.request>>, opened |-> r.opened,
                               closed |-> r.closed ]
             probed(r, cols) ==
                 IF r.err # NoErr
                 THEN refuse(r, Errorf("authentication failed: %w", <<r.err>>))
                 ELSE IF Len(cols) # 1
                 THEN refuse(r, Errorf("expected 1 column, got %d", <<Itoa(Len(cols))>>))
                 ELSE IF Len(cols[1].values) # 1
                 THEN refuse(r, Errorf("expected 1 value, got %d",
                                       <<Itoa(Len(cols[1].values))>>))
                 ELSE IF cols[1].values[1].t # "number"
                 THEN refuse(r, Errorf("expected integer value, got %v (type %T)", <<>>))
                 ELSE IF cols[1].values[1].v # 1
                 THEN refuse(r, Errorf("expected value 1, got %v", <<>>))
                 ELSE [ ctx |-> WithValue(ctx, password), authorized |-> TRUE,
                        err |-> NoErr, requests |-> <<r.request>>,
                        opened |-> r.opened, closed |-> r.closed ]
             answered(r) == probed(r, r.queryResp)
         IN  answered(executeQueryBuffered(ProbeQuery, password, resp))

\* What the protocol layer tells the client after the callback returned
\* (ctx, authorized, err): a non-nil error is an error of the server, which
\* drops the connection; only (false, nil) is answered as invalid credentials.
AuthReport(authorized, err) ==
    IF err # NoErr THEN "server_error"
    ELSE IF ~authorized THEN "invalid_password"
    ELSE "ok"

(***************************************************************************)
(* Values written to the client.                                           *)
(***************************************************************************)
Nil == [t |-> "nil"]
WStr(s) == [t |-> "string", v |-> s]
WFloat(n) == [t |-> "float64", v |-> n]
WBool(b) == [t |-> "bool", v |-> b]

NullCell == [null |-> TRUE]
Cell(v) == [null |-> FALSE, v |-> v]

Converted(val) == [val |-> val, err |-> NoErr]

\* n >= 0 in decimal, filled with zeros on the left up to width digits
Pad(n, width) ==
    LET d == Itoa(n)
    IN  [i \in 1..(IF Len(d) < width THEN width - Len(d) ELSE 0) |-> "0"] \o d

\* the calendar date of a day count since 1970-01-01 (time.Time.Date of the
\* proleptic Gregorian calendar), as [year, month, day]
CivilFromDays(days) ==
    LET z == days + 719468
        era == z \div 146097
        doe == z - era * 146097
        yoe == (doe - (doe \div 1460) + (doe \div 36524) - (doe \div 146096)) \div 365
        doy == doe - (365 * yoe + (yoe \div 4) - (yoe \div 100))
        mp == (5 * doy + 2) \div 153
        m == IF mp < 10 THEN mp + 3 ELSE mp - 9
    IN  [ year |-> yoe + era * 400 + (IF m <= 2 THEN 1 ELSE 0),
          month |-> m,
          day |-> doy - ((153 * mp + 2) \div 5) + 1 ]

\* time.Time.Format("2006-01-02") of a day count
FormatDate(days) ==
    LET d == CivilFromDays(days)
    IN  Pad(d.year, 4) \o <<"-">> \o Pad(d.month, 2) \o <<"-">> \o Pad(d.day, 2)

\* arrow.Timestamp(t).ToTime(arrow.Microsecond).Format("2006-01-02T15:04:05.000000Z"):
\* t is taken as a count of microseconds since the epoch, in UTC
FormatMicros(t) ==
    LET secs == t \div 1000000
        sod == secs % 86400
    IN  FormatDate(secs \div 86400) \o <<"T">>
          \o Pad(sod \div 3600, 2) \o <<":">> \o Pad((sod % 3600) \div 60, 2)
          \o <<":">> \o Pad(sod % 60, 2) \o <<".">> \o Pad(t % 1000000, 6) \o <<"Z">>

\* json.Marshal of one character inside a string
EscapeJson(ch) ==
    CASE ch = "\"" -> <<"\\", "\"">>
      [] ch = "\\" -> <<"\\", "\\">>
      [] ch = "\n" -> <<"\\", "n">>
      [] ch = "\t" -> <<"\\", "t">>
      [] ch = "<" -> <<"\\", "u", "0", "0", "3", "c">>
      [] ch = ">" -> <<"\\", "u", "0", "0", "3", "e">>
      [] ch = "&" -> <<"\\", "u", "0", "0", "2", "6">>
      [] OTHER -> <<ch>>

RECURSIVE Marshal(_)
\* json.Marshal of a value as encoding/json decoded it, or as
\* arrowValueToInterface collected it in listValues
Marshal(val) ==
    CASE val.t = "number" ->
             IF val.v < 0 THEN <<"-">> \o Itoa(0 - val.v) ELSE Itoa(val.v)
      [] val.t = "bool" ->
             IF val.v THEN <<"t", "r", "u", "e">> ELSE <<"f", "a", "l", "s", "e">>
      [] val.t = "null" -> <<"n", "u", "l", "l">>
      [] val.t = "string" ->
             <<"\"">> \o Join([i \in 1..Len(val.v) |-> EscapeJson(val.v[i])], <<>>)
                      \o <<"\"">>
      [] val.t = "array" ->
             <<"[">> \o Join([i \in 1..Len(val.v) |-> Marshal(val.v[i])], <<",">>)
                     \o <<"]">>

\* a converted value as an element of a []interface{}
AsInterface(w) ==
    CASE w.t = "nil" -> JNull
      [] w.t = "string" -> JStr(w.v)
      [] w.t = "float64" -> JNum(w.v)
      [] w.t = "bool" -> JBool(w.v)

RECURSIVE arrowValueToInterface(_, _)
\* main.go lines 181-226: col is an Arrow array [type, cells]; rowIdx counts
\* from 1 here.  The value of a list cell is the sequence of its element
\* cells (arr.ListValues() between the offsets of the row).  float64(x) is
\* exact for every integer the model uses (|x| < 2^53).
arrowValueToInterface(col, rowIdx) ==
    IF col.cells[rowIdx].null THEN Converted(Nil)
    ELSE LET v == col.cells[rowIdx].v
         IN  CASE col.type.id = "STRING" -> Converted(WStr(v))
               [] col.type.id = "BOOL" -> Converted(WBool(v))
               [] col.type.id \in {"INT32", "INT64", "UINT16", "UINT32", "UINT64"} ->
                      Converted(WFloat(v))
               [] col.type.id = "FLOAT64" -> Converted(WFloat(v))
               [] col.type.id = "DATE32" -> Converted(WStr(FormatDate(v)))
               [] col.type.id = "TIMESTAMP" -> Converted(WStr(FormatMicros(v)))
               [] col.type.id = "LIST" ->
                      LET innerArray == [type |-> col.type.elem, cells |-> v]
                          vals == [j \in 1..Len(v) |-> arrowValueToInterface(innerArray, j)]
                          bad == {j \in 1..Len(v) : vals[j].err # NoErr}
                      IN  IF bad # {}
                          THEN [ val |-> Nil,
                                 err |-> vals[CHOOSE j \in bad : \A k \in bad : j <= k].err ]
                          ELSE Converted(WStr(Marshal(
                                   JArr([j \in 1..Len(v) |-> AsInterface(vals[j].val)]))))
               [] OTHER ->
                      [ val |-> Nil,
                        err |-> Errorf("unsupported arrow type: %T", <<col.type.id>>) ]

\* jsonValueToInterface without the branch for nil: a null is marshalled
jsonValueToInterfaceNoNil(val) ==
    IF val.t = "string" THEN WStr(val.v)
    ELSE WStr(Marshal(val))

\* part_000 lines 212-222: one JSON value as a wire value
jsonValueToInterface(val) ==
    IF val.t = "string" THEN WStr(val.v)
    ELSE IF val.t = "null" THEN Nil
    ELSE WStr(Marshal(val))

\* SelectTag counting from one
SelectTagOffByOne(totalRows) ==
    <<"S", "E", "L", "E", "C", "T", " ">> \o Itoa(totalRows + 1)

\* fmt.Sprintf("SELECT %d", totalRows)
SelectTag(totalRows) == <<"S", "E", "L", "E", "C", "T", " ">> \o Itoa(totalRows)

(***************************************************************************)
(* wireHandler: the parse callback.  It returns either an error or a       *)
(* prepared statement whose row handler the protocol layer may invoke.     *)
(***************************************************************************)
Column(name, o) == [table |-> 0, name |-> name, oid |-> o, width |-> 256]

\* smallest element of a non-empty set of numbers
Min(S) == CHOOSE i \in S : \A j \in S : i <= j

\* what a wireHandler call returns and leaves behind
Outcome(state, err, columns, src, requests, bodies, readers) ==
    [ state |-> state, err |-> err, columns |-> columns, src |-> src,
      requests |-> requests, bodies |-> bodies, readers |-> readers ]

\* lines 283-292: the error for an intercepted psql query
InterceptError(d) ==
    WireError(
        Errorf("psql commands are not supported. Detected trying to use: %s. Please run instead:\n\n%s",
               <<d.detectedCommand, d.suggestedQuery>>),
        "FeatureNotSupported", "ERROR")

\* lines 296-299: the error for a failed upstream call
UpstreamError(err) == WireError(err, "SyntaxErrorOrAccessRuleViolation", "FATAL")

\* cmd/logfire_pg/main.go lines 279-327 and 368: everything wireHandler does
\* before it returns.  bodies/readers: response bodies and Arrow readers it
\* leaves open.
wireHandler(ctx, query, resp) ==
    LET mapped(r, schema, oids, bad) ==
            IF bad # {}
            THEN \* reader.Release(); respBody.Close()
                 Outcome("Failed",
                         WireError(oids[Min(bad)].err, "DatatypeMismatch", "FATAL"),
                         <<>>, NoBody, <<r.request>>, r.opened - r.closed - 1, 1 - 1)
            ELSE Outcome("SchemaMapped", NoWireError,
                         [i \in 1..Len(schema) |-> Column(schema[i].name, oids[i].oid)],
                         r.body, <<r.request>>, r.opened - r.closed, 1)
        read(r, schema, oids) ==
            mapped(r, schema, oids, {i \in 1..Len(schema) : oids[i].err # NoErr})
        executed(r) ==
            IF r.err # NoErr
            THEN Outcome("Failed", UpstreamError(r.err), <<>>, NoBody, <<r.request>>,
                         r.opened - r.closed, 0)
            ELSE IF r.body.kind # "arrow"
            THEN \* ipc.NewReader fails; respBody.Close()
                 Outcome("Failed",
                         WireError(Errorf("arrow/ipc: could not read schema", <<>>),
                                   "DataException", "FATAL"),
                         <<>>, NoBody, <<r.request>>, r.opened - r.closed - 1, 0)
            ELSE read(r, r.body.schema,
                      [i \in 1..Len(r.body.schema) |->
                          arrowTypeToPgOid(r.body.schema[i].type)])
        detected(d) ==
            IF d.isPsqlCommand
            THEN Outcome("Intercepted", InterceptError(d), <<>>, NoBody, <<>>, 0, 0)
            ELSE executed(executeQuery(query, CtxValue(ctx), resp))
    IN  detected(Detection[query])

\* part_000 lines 175-204 and 229: no interception; the result is decoded
\* in full and the body closed before wireHandler goes on
wireHandlerBuffered(ctx, query, resp) ==
    LET mapped(r, cols, oids, bad) ==
            IF bad # {}
            THEN Outcome("Failed",
                         WireError(oids[Min(bad)].err, "DatatypeMismatch", "FATAL"),
                         <<>>, NoBody, <<r.request>>, r.opened - r.closed, 0)
            ELSE Outcome("SchemaMapped", NoWireError,
                         [i \in 1..Len(cols) |-> Column(cols[i].name, oids[i].oid)],
                         JsonBody(cols), <<r.request>>, r.opened - r.closed, 0)
        decoded(r, cols, oids) ==
            mapped(r, cols, oids, {i \in 1..Len(cols) : oids[i].err # NoErr})
        executed(r) ==
            IF r.err # NoErr
            THEN Outcome("Failed", UpstreamError(r.err), <<>>, NoBody, <<r.request>>,
                         r.opened - r.closed, 0)
            ELSE decoded(r, r.queryResp,
                         [i \in 1..Len(r.queryResp) |->
                             arrowTypeToPgOidBuffered(r.queryResp[i].name,
                                                      r.queryResp[i].datatype)])
    IN  executed(executeQueryBuffered(query, CtxValue(ctx), resp))

(***************************************************************************)
(* The row handler (handle) of a prepared statement.                       *)
(***************************************************************************)
\* a loop that passes over a row with a value it cannot convert and goes on
BatchRowsSkipping(schema, batch) ==
    LET col(j) == [type |-> schema[j].type, cells |-> batch.columns[j]]
        fine == {i \in 1..batch.numRows :
                    \A j \in 1..Len(batch.columns) :
                        arrowValueToInterface(col(j), i).err = NoErr}
        RECURSIVE kept(_)
        kept(i) == IF i = 0 THEN <<>>
                   ELSE IF i \in fine
                   THEN Append(kept(i - 1),
                               [j \in 1..Len(batch.columns) |->
                                   arrowValueToInterface(col(j), i).val])
                   ELSE kept(i - 1)
    IN  [rows |-> kept(batch.numRows), err |-> NoErr]

\* main.go lines 338-358: the rows of one record batch, converted; a row is
\* written only if every value of it converted
BatchRows(schema, batch) ==
    LET numCols == Len(batch.columns)
        col(j) == [type |-> schema[j].type, cells |-> batch.columns[j]]
        conv(i, j) == arrowValueToInterface(col(j), i)
        failing == {i \in 1..batch.numRows :
                        \E j \in 1..numCols : conv(i, j).err # NoErr}
        upto == IF failing = {} THEN batch.numRows ELSE Min(failing) - 1
        badCol == Min({j \in 1..numCols : conv(upto + 1, j).err # NoErr})
    IN  [ rows |-> [i \in 1..upto |-> [j \in 1..numCols |-> conv(i, j).val]],
          err |-> IF failing = {} THEN NoErr
                  ELSE Errorf("failed to convert column %d row %d: %w",
                              <<Itoa(badCol - 1), Itoa(upto), conv(upto + 1, badCol).err>>) ]

\* a loop that writes the rows from the last index down to the first
RowsBufferedReversed(cols, numRows) ==
    [ rows |-> [i \in 1..numRows |->
                   [j \in 1..Len(cols) |->
                       jsonValueToInterface(cols[j].values[numRows + 1 - i])]],
      err |-> NoErr ]

\* part_000 lines 207-226: the rows of the decoded document; row i reads
\* index i of every column's values, which panics past the end of a column
RowsBuffered(cols, numRows) ==
    LET short == {i \in 1..numRows : \E j \in 1..Len(cols) : Len(cols[j].values) < i}
        upto == IF short = {} THEN numRows ELSE Min(short) - 1
    IN  [ rows |-> [i \in 1..upto |->
                       [j \in 1..Len(cols) |-> jsonValueToInterface(cols[j].values[i])]],
          err |-> IF short = {} THEN NoErr
                  ELSE Errorf("panic: runtime error: index out of range", <<>>) ]

\* part_000 lines 201-204
NumRowsBuffered(cols) == IF Len(cols) > 0 THEN Len(cols[1].values) ELSE 0

(***************************************************************************)
(* Inputs: what clients send and what the upstream answers.                *)
(***************************************************************************)
Variants == {"streaming", "buffered"}
Conns == {"c1", "c2"}
Tokens == {"tokA", "tokB"}
Usernames == {"", "token"}

SyntaxErrorText == <<"s", "y", "n", "t", "a", "x", " ", "e", "r", "r", "o", "r">>

Field(name, id) == [name |-> name, type |-> ArrowType(id)]

Schemas ==
    { <<>>,
      <<Field("n", "INT64")>>,
      <<Field("s", "STRING"), Field("n", "INT64")>>,
      <<Field("n", "INT64"), Field("f", "FLOAT32")>>,
      <<Field("f", "FLOAT32"), Field("s", "STRING"), Field("n", "INT64")>>,
      <<Field("l", "LARGE_STRING")>> }

\* the cell of result row r (counted over the whole result) in a column of
\* Arrow type id: integers count the rows, strings are null in one row
CellOf(id, r) ==
    CASE id = "INT64" -> Cell(r)
      [] id = "FLOAT32" -> Cell(r)
      [] id = "STRING" -> IF r = 2 THEN NullCell ELSE Cell(<<"v">> \o Itoa(r))
      [] id = "LARGE_STRING" -> IF r = 1 THEN NullCell ELSE Cell(<<"v">> \o Itoa(r))

\* how a result of up to MaxRows rows is cut into record batches
Batchings ==
    { <<>>, <<MaxRows>>, <<1, MaxRows - 1>>, <<0, 1>>, [i \in 1..MaxRows |-> 1] }

\* the record batch of n rows that follows `before` rows of the result
Batch(schema, before, n) ==
    [ numRows |-> n,
      columns |-> [j \in 1..Len(schema) |->
                      [i \in 1..n |-> CellOf(schema[j].type.id, before + i)]] ]

RECURSIVE RowsBefore(_, _)
\* the rows of the batches that come before batch k
RowsBefore(sizes, k) ==
    IF k <= 1 THEN 0 ELSE RowsBefore(sizes, k - 1) + sizes[k - 1]

Batches(schema, sizes) ==
    [k \in 1..Len(sizes) |-> Batch(schema, RowsBefore(sizes, k), sizes[k])]

\* the Arrow streams the upstream answers with: every batching of the
\* one-column result, some of the others, two streams that break, and one
\* whose second row holds a value that the conversion of values rejects
ArrowBodies ==
    LET one == <<Field("n", "INT64")>>
        two == <<Field("s", "STRING"), Field("n", "INT64")>>
        lrg == <<Field("n", "INT64"), Field("l", "LARGE_STRING")>>
    IN  { ArrowBody(one, Batches(one, z), FALSE) : z \in Batchings }
        \cup { ArrowBody(lrg, Batches(lrg, <<1, MaxRows - 1>>), FALSE) }
        \cup { ArrowBody(two, Batches(two, z), FALSE) :
                  z \in {<<MaxRows>>, <<1, MaxRows - 1>>} }
        \cup { ArrowBody(s, Batches(s, <<MaxRows>>), FALSE) : s \in Schemas }
        \cup { ArrowBody(one, Batches(one, z), TRUE) :
                  z \in {<<>>, <<1, MaxRows - 1>>} }

JsonColumn(name, datatype, values) ==
    [name |-> name, datatype |-> datatype, nullable |-> FALSE, values |-> values]

\* values 1..n as JSON numbers
Counting(n) == [i \in 1..n |-> JNum(i)]

JsonBodies ==
    { JsonBody(<<JsonColumn("n", JStr("Int64"), Counting(n))>>) : n \in 0..MaxRows }
    \cup
    { JsonBody(<<>>),
      JsonBody(<<JsonColumn("n", JStr("Int64"), <<JNum(2)>>)>>),
      JsonBody(<<JsonColumn("n", JStr("Utf8"), <<JStr(<<"1">>)>>)>>),
      JsonBody(<<JsonColumn("s", JStr("Utf8"), <<JStr(<<"a">>), JNull>>),
                 JsonColumn("n", JStr("Int64"), Counting(2))>>),
      JsonBody(<<JsonColumn("n", JStr("Int64"), Counting(1)),
                 JsonColumn("f", JStr("Float32"), Counting(1))>>),
      JsonBody(<<JsonColumn("f", JStr("Float32"), Counting(1)),
                 JsonColumn("n", JStr("Int64"), Counting(1))>>),
      \* columns of unequal length: json.Unmarshal accepts the document
      JsonBody(<<JsonColumn("n", JStr("Int64"), Counting(2)),
                 JsonColumn("m", JStr("Int64"), Counting(1))>>) }

Failures ==
    { Unreachable,
      [status |-> 400, body |-> TextBody(SyntaxErrorText)],
      [status |-> 401, body |-> TextBody(<<>>)] }

\* the answers the upstream may give to a request of the given build
Responses(v) ==
    Failures \cup {[status |-> 200, body |-> GarbageBody]}
        \cup { [status |-> 200, body |-> b] :
                 b \in IF v = "streaming" THEN ArrowBodies ELSE JsonBodies }

\* Connection c1 sees every query and every answer of the model; connection
\* c2, which is there for the interleavings, a few of each.
QueriesOf(c) == IF c = "c1" THEN Queries ELSE {SelectOne, dtPattern}

ResponsesOf(c, v) ==
    IF c = "c1" THEN Responses(v)
    ELSE { [status |-> 400, body |-> TextBody(SyntaxErrorText)],
           [status |-> 200,
            body |-> IF v = "streaming"
                     THEN ArrowBody(<<Field("n", "INT64")>>,
                                    Batches(<<Field("n", "INT64")>>, <<1, MaxRows - 1>>),
                                    FALSE)
                     ELSE JsonBody(<<JsonColumn("n", JStr("Int64"), Counting(1))>>)] }

(***************************************************************************)
(* State.                                                                  *)
(***************************************************************************)
VARIABLES
    variant,      \* which build of the server runs
    session,      \* per connection: "new", "ready", "gone" (the client closed
                  \* its connection while handle runs) or "closed"
    ctx,          \* per connection: its context (the bound credential)
    stmt,         \* per connection: the prepared statement of its current query
    openBodies,   \* per connection: response bodies opened and not closed
    openReaders,  \* per connection: Arrow readers created and not released
    nq,           \* wireHandler calls so far
    last          \* the latest callback invocation: inputs, requests, result

vars == <<variant, session, ctx, stmt, openBodies, openReaders, nq, last>>

NoStmt == [state |-> "none"]

\* a statement as wire.NewStatement(handle, wire.WithColumns(columns)) makes
\* it, with what the closure handle captured (src) and its progress.  id is
\* the wireHandler call that made it.  rows, totalRows, completes, tag and
\* err belong to the latest invocation of handle; runs counts the
\* invocations, emitters those that wrote a row, staleReads those that read
\* the reader after its release, lost the rows written after the client went.
Statement(o, id) ==
    [ state |-> o.state, columns |-> o.columns, src |-> o.src,
      next |-> 1, totalRows |-> 0, rows |-> <<>>, completes |-> 0,
      tag |-> <<>>, err |-> NoErr,
      id |-> id, runs |-> 0, emitters |-> 0, staleReads |-> 0, lost |-> 0 ]

Init ==
    /\ variant \in Variants
    /\ session = [c \in Conns |-> "new"]
    /\ ctx = [c \in Conns |-> EmptyCtx]
    /\ stmt = [c \in Conns |-> NoStmt]
    /\ openBodies = [c \in Conns |-> 0]
    /\ openReaders = [c \in Conns |-> 0]
    /\ nq = 0
    /\ last = [op |-> "none"]

(***************************************************************************)
(* Actions.                                                                *)
(***************************************************************************)
\* A client connects and sends its password: the protocol layer calls auth.
Auth(c) ==
    /\ session[c] = "new"
    /\ \E username \in Usernames, password \in Tokens :
       \E resp \in ResponsesOf(c, variant) :
       \E r \in { IF variant = "streaming"
                   THEN auth(ctx[c], username, password, resp)
                   ELSE authBuffered(ctx[c], username, password, resp) } :
       \E report \in {AuthReport(r.authorized, r.err)} :
              /\ session' = [session EXCEPT ![c] = IF report = "ok" THEN "ready"
                                                   ELSE "closed"]
              /\ ctx' = [ctx EXCEPT ![c] = r.ctx]
              /\ openBodies' = [openBodies EXCEPT ![c] = @ + r.opened - r.closed]
              /\ last' = [ op |-> "auth", conn |-> c, username |-> username,
                           password |-> password, before |-> ctx[c],
                           resp |-> IF r.requests = <<>> THEN Unanswered ELSE resp,
                           ctx |-> r.ctx, authorized |-> r.authorized,
                           err |-> r.err, requests |-> r.requests,
                           report |-> report ]
    /\ UNCHANGED <<variant, stmt, openReaders, nq>>

\* A client sends a query: the protocol layer calls wireHandler.  An error
\* of severity FATAL ends the session; any other leaves it ready.
WireHandler(c) ==
    /\ session[c] = "ready"
    /\ stmt[c].state \in {"none", "Completed", "Failed"}
    /\ nq < MaxQueries
    /\ \E query \in QueriesOf(c) :
       \E resp \in ResponsesOf(c, variant) :
       \E o \in { IF variant = "streaming"
                   THEN wireHandler(ctx[c], query, resp)
                   ELSE wireHandlerBuffered(ctx[c], query, resp) } :
              /\ stmt' = [stmt EXCEPT ![c] = IF o.state = "SchemaMapped"
                                               THEN Statement(o, nq + 1) ELSE NoStmt]
              /\ session' = [session EXCEPT ![c] = IF o.err.severity = "FATAL"
                                                   THEN "closed" ELSE "ready"]
              /\ openBodies' = [openBodies EXCEPT ![c] = @ + o.bodies]
              /\ openReaders' = [openReaders EXCEPT ![c] = @ + o.readers]
              /\ last' = [ op |-> "wireHandler", conn |-> c, query |-> query,
                           resp |-> IF o.requests = <<>> THEN Unanswered ELSE resp,
                           state |-> o.state, err |-> o.err,
                           requests |-> o.requests, bodies |-> o.bodies,
                           readers |-> o.readers ]
    /\ nq' = nq + 1
    /\ UNCHANGED <<variant, ctx>>

\* The protocol layer invokes the row handler of a statement of the
\* streaming build: handle starts, totalRows := 0 (main.go lines 330-334).
Execute(c) ==
    /\ variant = "streaming"
    /\ session[c] = "ready"
    /\ stmt[c].state = "SchemaMapped"
    /\ stmt' = [stmt EXCEPT ![c].state = "Streaming", ![c].totalRows = 0,
                            ![c].runs = @ + 1]
    /\ last' = [op |-> "handle", conn |-> c, step |-> "enter"]
    /\ UNCHANGED <<variant, session, ctx, openBodies, openReaders, nq>>

\* reader.Next() delivers a record batch: its rows are converted and written
\* (lines 337-359).  A conversion error returns from handle, and the deferred
\* respBody.Close() and reader.Release() run.  The loop consults neither ctx
\* nor the result of writer.Row (line 356), so it runs the same after the
\* client has gone: the rows are then converted, counted and lost.
ReadBatch(c) ==
    /\ variant = "streaming"
    /\ session[c] \in {"ready", "gone"}
    /\ stmt[c].state = "Streaming"
    /\ stmt[c].next <= Len(stmt[c].src.batches)
    /\ \E b \in {BatchRows(stmt[c].src.schema, stmt[c].src.batches[stmt[c].next])} :
       \E failed \in {b.err # NoErr} :
       \E gone \in {session[c] = "gone"} :
           /\ stmt' = [stmt EXCEPT ![c].rows = IF gone THEN @ ELSE @ \o b.rows,
                                   ![c].lost = IF gone THEN @ + Len(b.rows) ELSE @,
                                   ![c].emitters =
                                       IF ~gone /\ stmt[c].rows = <<>> /\ b.rows # <<>>
                                       THEN @ + 1 ELSE @,
                                   ![c].totalRows = @ + Len(b.rows),
                                   ![c].next = @ + 1,
                                   ![c].err = b.err,
                                   ![c].state = IF failed THEN "Failed" ELSE @]
           /\ openBodies' = [openBodies EXCEPT ![c] = IF failed THEN @ - 1 ELSE @]
           /\ openReaders' = [openReaders EXCEPT ![c] = IF failed THEN @ - 1 ELSE @]
           /\ session' = [session EXCEPT ![c] = IF failed /\ gone THEN "closed" ELSE @]
    /\ last' = [op |-> "handle", conn |-> c, step |-> "batch"]
    /\ UNCHANGED <<variant, ctx, nq>>

\* reader.Next() returns false: a stream error fails the query, the end of
\* the stream completes it (lines 361-365); the deferred calls run.  With
\* the client gone, writer.Complete cannot write its tag and returns the
\* error of the closed connection, and the session ends.
EndOfStream(c) ==
    /\ variant = "streaming"
    /\ session[c] \in {"ready", "gone"}
    /\ stmt[c].state = "Streaming"
    /\ stmt[c].next > Len(stmt[c].src.batches)
    /\ stmt' = [stmt EXCEPT ![c] =
                  IF stmt[c].src.broken
                  THEN [@ EXCEPT !.state = "Failed",
                                 !.err = Errorf("error reading arrow stream: %w", <<>>)]
                  ELSE IF session[c] = "gone"
                  THEN [@ EXCEPT !.state = "Failed",
                                 !.completes = @ + 1,
                                 !.err = Errorf("use of closed network connection", <<>>)]
                  ELSE [@ EXCEPT !.state = "Completed",
                                 !.completes = @ + 1,
                                 !.tag = SelectTag(stmt[c].totalRows)]]
    /\ openBodies' = [openBodies EXCEPT ![c] = @ - 1]
    /\ openReaders' = [openReaders EXCEPT ![c] = @ - 1]
    /\ session' = [session EXCEPT ![c] = IF @ = "gone" THEN "closed" ELSE @]
    /\ last' = [op |-> "handle", conn |-> c, step |-> "end"]
    /\ UNCHANGED <<variant, ctx, nq>>

\* The client closes its connection while handle of the streaming build is
\* between two batches.  The code has no step for it: handle takes ctx and
\* never reads it (line 330), and drops what writer.Row returns (line 356).
ClientGone(c) ==
    /\ variant = "streaming"
    /\ session[c] = "ready"
    /\ stmt[c].state = "Streaming"
    /\ session' = [session EXCEPT ![c] = "gone"]
    /\ last' = [op |-> "clientGone", conn |-> c, read |-> stmt[c].next - 1]
    /\ UNCHANGED <<variant, ctx, stmt, openBodies, openReaders, nq>>

\* The protocol layer invokes the row handler of a statement of the JSON
\* build: handle writes every row and completes (part_000 lines 207-227).
ExecuteBuffered(c) ==
    /\ variant = "buffered"
    /\ session[c] = "ready"
    /\ stmt[c].state = "SchemaMapped"
    /\ \E numRows \in {NumRowsBuffered(stmt[c].src.columns)} :
       \E b \in {RowsBuffered(stmt[c].src.columns, numRows)} :
           stmt' = [stmt EXCEPT ![c] =
                      IF b.err # NoErr
                      THEN [@ EXCEPT !.state = "Failed", !.rows = b.rows,
                                     !.totalRows = Len(b.rows), !.err = b.err,
                                     !.runs = @ + 1,
                                     !.emitters = IF b.rows # <<>> THEN @ + 1 ELSE @]
                      ELSE [@ EXCEPT !.state = "Completed", !.rows = b.rows,
                                     !.totalRows = numRows,
                                     !.completes = @ + 1,
                                     !.tag = SelectTag(numRows),
                                     !.runs = @ + 1,
                                     !.emitters = IF b.rows # <<>> THEN @ + 1 ELSE @]]
    /\ last' = [op |-> "handle", conn |-> c, step |-> "end"]
    /\ UNCHANGED <<variant, session, ctx, openBodies, openReaders, nq>>

\* what a read of the Arrow reader gives once reader.Release() has run: the
\* reader reports the end of its stream, or an error of the closed body, or
\* the read fails on the memory it gave back
StaleOutcomes == {"end", "error", "panic"}

\* handle of the streaming build invoked again: its closure still holds the
\* reader and the body that the deferred calls of the first invocation
\* released (main.go lines 330-332), and reader.Next() is called on them.
handleAgain(st, outcome) ==
    [st EXCEPT !.runs = @ + 1,
               !.staleReads = @ + 1,
               !.rows = <<>>,
               !.totalRows = 0,
               !.state = IF outcome = "end" THEN "Completed" ELSE "Failed",
               !.completes = IF outcome = "end" THEN 1 ELSE 0,
               !.tag = IF outcome = "end" THEN SelectTag(0) ELSE <<>>,
               !.err = CASE outcome = "end" -> NoErr
                         [] outcome = "error" ->
                              Errorf("error reading arrow stream: %w", <<>>)
                         [] outcome = "panic" ->
                              Errorf("panic: runtime error: invalid memory address", <<>>)]

\* handle of the JSON build invoked again: its closure still holds the
\* decoded columns, and every row is written again (part_000 lines 207-227).
handleAgainBuffered(st) ==
    LET again(numRows) ==
            LET written(b) ==
                    IF b.err # NoErr
                    THEN [st EXCEPT !.state = "Failed", !.rows = b.rows,
                                    !.totalRows = Len(b.rows), !.err = b.err,
                                    !.completes = 0,
                                    !.tag = <<>>,
                                    !.runs = @ + 1,
                                    !.emitters = IF b.rows # <<>> THEN @ + 1 ELSE @]
                    ELSE [st EXCEPT !.state = "Completed", !.rows = b.rows,
                                    !.totalRows = numRows,
                                    !.completes = 1,
                                    !.tag = SelectTag(numRows),
                                    !.err = NoErr,
                                    !.runs = @ + 1,
                                    !.emitters = IF b.rows # <<>> THEN @ + 1 ELSE @]
            IN  written(RowsBuffered(st.src.columns, numRows))
    IN  again(NumRowsBuffered(st.src.columns))

\* The client executes a statement it has executed before: the protocol
\* layer keeps a parsed statement and calls its row handler at each Execute.
ExecuteAgain(c) ==
    /\ session[c] = "ready"
    /\ stmt[c].state \in {"Completed", "Failed"}
    /\ stmt[c].runs < MaxRuns
    /\ \E outcome \in StaleOutcomes :
       \E st \in { IF variant = "streaming"
                    THEN handleAgain(stmt[c], outcome)
                    ELSE handleAgainBuffered(stmt[c]) } :
           stmt' = [stmt EXCEPT ![c] = st]
    /\ last' = [op |-> "handle", conn |-> c, step |-> "again"]
    /\ UNCHANGED <<variant, session, ctx, openBodies, openReaders, nq>>

\* The client ends the session (terminateConn, lines 273-276) between two
\* steps of the protocol; a statement that was parsed and never executed is
\* dropped with the session.
Terminate(c) ==
    /\ session[c] = "ready"
    /\ stmt[c].state # "Streaming"
    /\ session' = [session EXCEPT ![c] = "closed"]
    /\ stmt' = [stmt EXCEPT ![c] = NoStmt]
    /\ last' = [op |-> "terminateConn", conn |-> c, dropped |-> stmt[c].state]
    /\ UNCHANGED <<variant, ctx, openBodies, openReaders, nq>>

Next ==
    \E c \in Conns :
        \/ Auth(c)
        \/ WireHandler(c)
        \/ Execute(c)
        \/ ReadBatch(c)
        \/ EndOfStream(c)
        \/ ClientGone(c)
        \/ ExecuteBuffered(c)
        \/ ExecuteAgain(c)
        \/ Terminate(c)

Spec == Init /\ [][Next]_vars

(***************************************************************************)
(* The type mapping on its own: SpecTypes applies arrowTypeToPgOid to the  *)
(* type descriptors an upstream schema can hold.                           *)
(***************************************************************************)
\* the scalar kinds of the data model, and kinds outside it
ScalarKinds ==
    { "Utf8", "Json", "Boolean", "Int32", "Int64", "UInt16", "UInt32", "UInt64",
      "Float64", "Date32", "Timestamp" }

OtherKinds ==
    { "LargeUtf8", "Float32", "Int8", "Int16", "UInt8", "Binary", "Decimal128",
      "Time64", "Null" }

\* arrow.Type of a kind (a JSON column arrives as an extension type)
ArrowId ==
    [ Utf8 |-> "STRING", Json |-> "EXTENSION", Boolean |-> "BOOL", Int32 |-> "INT32",
      Int64 |-> "INT64", UInt16 |-> "UINT16", UInt32 |-> "UINT32", UInt64 |-> "UINT64",
      Float64 |-> "FLOAT64", Date32 |-> "DATE32", Timestamp |-> "TIMESTAMP",
      LargeUtf8 |-> "LARGE_STRING", Float32 |-> "FLOAT32", Int8 |-> "INT8",
      Int16 |-> "INT16", UInt8 |-> "UINT8", Binary |-> "BINARY",
      Decimal128 |-> "DECIMAL128", Time64 |-> "TIME64", Null |-> "NULL" ]

TimeUnits == {"Second", "Millisecond", "Microsecond", "Nanosecond"}

\* the "datatype" of a column in the JSON document, per kind: a string, or
\* for a timestamp {"Timestamp": [unit, zone]} or the bare array [unit, zone]
JsonDatatypes(kind) ==
    IF kind = "Timestamp"
    THEN { JObj("Timestamp" :> JArr(<<JStr(u), JStr("UTC")>>)) : u \in TimeUnits }
         \cup { JArr(<<JStr(u), JStr("UTC")>>) : u \in {"Microsecond", "Nanosecond"} }
    ELSE IF kind = "Json" THEN {JStr("JSON")}
    ELSE {JStr(kind)}

\* {"List": {"name": "item", "datatype": inner, "nullable": true}}
JsonList(inner) ==
    JObj("List" :> JObj("name" :> JStr("item") @@ "datatype" :> inner
                           @@ "nullable" :> JBool(TRUE)))

\* a type descriptor as given to the mapping: the scalar kind at its core,
\* the number of List layers around it, and its upstream form dt
ScalarInputs(v) ==
    IF v = "streaming"
    THEN { [kind |-> k, depth |-> 0, dt |-> ArrowType(ArrowId[k])] :
             k \in ScalarKinds \cup OtherKinds }
    ELSE UNION { { [kind |-> k, depth |-> 0, dt |-> d] : d \in JsonDatatypes(k) } :
                   k \in ScalarKinds \cup OtherKinds }
         \cup { [kind |-> "Null", depth |-> 0, dt |-> JNull],
                [kind |-> "Null", depth |-> 0, dt |-> JNum(7)] }

RECURSIVE TypeInputs(_, _)
TypeInputs(v, depth) ==
    IF depth = 0 THEN ScalarInputs(v)
    ELSE LET inner == TypeInputs(v, depth - 1)
         IN  inner \cup { [ kind |-> i.kind, depth |-> i.depth + 1,
                            dt |-> IF v = "streaming" THEN ListOf(i.dt)
                                   ELSE JsonList(i.dt) ] : i \in inner }

\* wireHandler maps the type of one column of a schema
MapType ==
    /\ \E i \in TypeInputs(variant, MaxListDepth) :
          last' = [ op |-> "arrowTypeToPgOid", kind |-> i.kind, depth |-> i.depth,
                    dt |-> i.dt,
                    result |-> IF variant = "streaming"
                               THEN arrowTypeToPgOid(i.dt)
                               ELSE arrowTypeToPgOidBuffered("col", i.dt) ]
    /\ UNCHANGED <<variant, session, ctx, stmt, openBodies, openReaders, nq>>

\* sample upstream values of a kind, by position in a list
TextKinds == {"Utf8", "LargeUtf8", "Json", "Binary", "Decimal128", "Null"}

SampleTexts ==
    << <<"a">>, <<"b", " ", "c">>, <<"d", ",", "e">>, <<"\"", "f">>, <<"{", "}">> >>

SampleDays == <<0, 59, 11016, 19000, -1>>

SampleMicros == <<0, 1, 1000000, 2000000001, -1>>

Sample(kind, i) ==
    LET k == ((i - 1) % 5) + 1
    IN  CASE kind \in TextKinds -> SampleTexts[k]
          [] kind = "Boolean" -> (k % 2 = 1)
          [] kind = "Date32" -> SampleDays[k]
          [] kind \in {"Timestamp", "Time64"} -> SampleMicros[k]
          [] kind \in {"UInt8", "UInt16", "UInt32", "UInt64"} -> 7 * (i - 1)
          [] OTHER -> 7 * i - 10

\* the shapes of the value given to the conversion: a null, a scalar, a null
\* in a list column, and lists of 0, 1 and MaxListLen elements, the last
\* also with a null among its elements
Shapes == {"null", "first", "second", "nullList", "empty", "single", "full", "holed"}

ShapeDepth(shape) == IF shape \in {"null", "first", "second"} THEN 0 ELSE 1

ElementCells(kind, n, holed) ==
    [i \in 1..n |-> IF holed /\ i = 2 THEN NullCell ELSE Cell(Sample(kind, i))]

\* the cell of a shape: for a list, its value is the sequence of element cells
SampleCell(kind, shape) ==
    CASE shape \in {"null", "nullList"} -> NullCell
      [] shape = "first" -> Cell(Sample(kind, 1))
      [] shape = "second" -> Cell(Sample(kind, 2))
      [] shape = "empty" -> Cell(ElementCells(kind, 0, FALSE))
      [] shape = "single" -> Cell(ElementCells(kind, 1, FALSE))
      [] shape = "full" -> Cell(ElementCells(kind, MaxListLen, FALSE))
      [] shape = "holed" -> Cell(ElementCells(kind, MaxListLen, TRUE))

\* the value as it stands in the "values" of a JSON column
JsonOf(kind, raw) ==
    CASE kind \in TextKinds -> JStr(raw)
      [] kind = "Boolean" -> JBool(raw)
      [] kind = "Date32" -> JStr(FormatDate(raw))
      [] kind \in {"Timestamp", "Time64"} -> JStr(FormatMicros(raw))
      [] OTHER -> JNum(raw)

JsonCell(kind, cell) == IF cell.null THEN JNull ELSE JsonOf(kind, cell.v)

JsonValue(kind, shape) ==
    LET cell == SampleCell(kind, shape)
    IN  IF cell.null THEN JNull
        ELSE IF ShapeDepth(shape) = 0 THEN JsonOf(kind, cell.v)
        ELSE JArr([i \in 1..Len(cell.v) |-> JsonCell(kind, cell.v[i])])

\* the Arrow array of one row that holds the cell
ArrowColumn(kind, shape) ==
    [ type |-> IF ShapeDepth(shape) = 0 THEN ArrowType(ArrowId[kind])
               ELSE ListOf(ArrowType(ArrowId[kind])),
      cells |-> <<SampleCell(kind, shape)>> ]

\* handle converts one value of a row
MapValue ==
    /\ \E kind \in ScalarKinds \cup OtherKinds, shape \in Shapes :
          last' = [ op |-> "arrowValueToInterface", kind |-> kind, shape |-> shape,
                    depth |-> ShapeDepth(shape),
                    cell |-> SampleCell(kind, shape),
                    result |-> IF variant = "streaming"
                               THEN arrowValueToInterface(ArrowColumn(kind, shape), 1)
                               ELSE Converted(jsonValueToInterface(JsonValue(kind, shape))) ]
    /\ UNCHANGED <<variant, session, ctx, stmt, openBodies, openReaders, nq>>

\* the catalog query psql sends for \d T, and for \d S.T
Describe(tableName) == dPatternPrefix \o tableName \o dPatternSuffix

DescribeIn(schemaName, tableName) ==
    dSchemaPatternPrefix \o tableName \o dSchemaPatternMiddle \o schemaName
        \o dSchemaPatternSuffix

Spans == <<"s", "p", "a", "n", "s">>
Public == <<"p", "u", "b", "l", "i", "c">>
\* a table name that holds two spaces in a row
WideName == <<"a", " ", " ", "b">>

\* the queries given to the detection, by name
QueryNames ==
    { "dt", "d spans", "d public.spans", "d wide", "d public.wide", "d empty",
      "dt cut", "explain dt", "d spans more", "select one", "select sum" }

NamedQuery(name) ==
    CASE name = "dt" -> dtPattern
      [] name = "d spans" -> Describe(Spans)
      [] name = "d public.spans" -> DescribeIn(Public, Spans)
      [] name = "d wide" -> Describe(WideName)
      [] name = "d public.wide" -> DescribeIn(Public, WideName)
      [] name = "d empty" -> Describe(<<>>)
      [] name = "dt cut" -> SubSeq(dtPattern, 1, Len(dtPattern) - 1)
      [] name = "explain dt" -> <<"E", "X", "P", "L", "A", "I", "N", " ">> \o dtPattern
      [] name = "d spans more" -> Describe(Spans) \o <<" ", "-", "-">>
      [] name = "select one" -> SelectOne
      [] name = "select sum" -> SelectSum

\* the ways the whitespace between the tokens of a query is written
Spacings == {"same", "newlines", "tabs", "double", "padded"}

Spaced(q, spacing) ==
    CASE spacing = "same" -> q
      [] spacing = "newlines" -> Respace(q, <<"\n", " ">>)
      [] spacing = "tabs" -> Respace(q, <<"\t">>)
      [] spacing = "double" -> Respace(q, <<" ", " ">>)
      [] spacing = "padded" -> <<" ", "\t">> \o q \o <<"\n">>

\* DetectPsqlCommandQuery on these queries, computed once
Detections ==
    [name \in QueryNames |->
        [spacing \in Spacings |-> DetectPsqlCommandQuery(Spaced(NamedQuery(name), spacing))]]

\* wireHandler asks whether a query is one of psql's
Detect ==
    /\ \E name \in QueryNames, spacing \in Spacings :
          last' = [ op |-> "DetectPsqlCommandQuery", name |-> name,
                    spacing |-> spacing, result |-> Detections[name][spacing] ]
    /\ UNCHANGED <<variant, session, ctx, stmt, openBodies, openReaders, nq>>

\* raw values of a Timestamp column, by position
SampleStamps == <<0, 1, 1500, 2001, -1>>

\* the Arrow array of one row of a Timestamp column of the unit: the unit is
\* part of the column's type, the cell holds the count of units since the
\* epoch
TimestampColumn(unit, raw) ==
    [type |-> [id |-> "TIMESTAMP", unit |-> unit], cells |-> <<Cell(raw)>>]

\* handle converts one value of a Timestamp column of the streaming build
\* (the JSON build passes on the text the upstream wrote, part_000 lines
\* 213-214)
MapTimestamp ==
    /\ variant = "streaming"
    /\ \E unit \in TimeUnits, i \in 1..Len(SampleStamps) :
          last' = [ op |-> "timestampValue", unit |-> unit, raw |-> SampleStamps[i],
                    result |-> arrowValueToInterface(
                                   TimestampColumn(unit, SampleStamps[i]), 1) ]
    /\ UNCHANGED <<variant, session, ctx, stmt, openBodies, openReaders, nq>>

NextTypes == MapType \/ MapValue \/ Detect \/ MapTimestamp

SpecTypes == Init /\ [][NextTypes]_vars

(***************************************************************************)
(* Helpers of the properties.                                              *)
(***************************************************************************)
\* the character a %XX escape stands for
Unpercent(a, b) == CHOOSE ch \in DOMAIN PercentCode : PercentCode[ch] = <<"%", a, b>>

\* url.QueryUnescape, as the upstream decodes a query-string value
QueryUnescape(e) ==
    LET n == Len(e)
        inEscape(i) == (i > 1 /\ e[i - 1] = "%") \/ (i > 2 /\ e[i - 2] = "%")
        heads == SelectSeq([i \in 1..n |-> i], LAMBDA i : ~inEscape(i))
    IN  [k \in 1..Len(heads) |->
            LET i == heads[k]
            IN  IF e[i] = "+" THEN " "
                ELSE IF e[i] = "%" THEN Unpercent(e[i + 1], e[i + 2])
                ELSE e[i]]

\* the value of the one parameter "sql" of a raw query string, and <<"?">>
\* if the string is not of the form sql=<value> with a single parameter
SqlParameter(rawQuery) ==
    IF /\ HasPrefix(rawQuery, <<"s", "q", "l", "=">>)
       /\ \A i \in 5..Len(rawQuery) : rawQuery[i] \notin {"&", "=", " "}
    THEN QueryUnescape(SubSeq(rawQuery, 5, Len(rawQuery)))
    ELSE <<"?">>

RECURSIVE RowCount(_)
\* the number of rows of a sequence of record batches
RowCount(batches) ==
    IF batches = <<>> THEN 0 ELSE batches[1].numRows + RowCount(Tail(batches))

\* the answer to the probe is a result of one column and one row whose
\* value is the number 1
ProbeIsOne(resp) ==
    /\ resp.status = 200
    /\ \/ /\ resp.body.kind = "json"
          /\ Len(resp.body.columns) = 1
          /\ Len(resp.body.columns[1].values) = 1
          /\ resp.body.columns[1].values[1] = JNum(1)
       \/ /\ resp.body.kind = "arrow"
          /\ Len(resp.body.schema) = 1
          /\ resp.body.schema[1].type.id \in {"INT32", "INT64", "FLOAT64"}
          /\ ~resp.body.broken
          /\ RowCount(resp.body.batches) = 1
          /\ \E k \in 1..Len(resp.body.batches) :
                /\ resp.body.batches[k].numRows = 1
                /\ resp.body.batches[k].columns[1][1] = Cell(1)

\* a call of auth / wireHandler that sent a request upstream
SentRequest == last.op \in {"auth", "wireHandler"} /\ last.requests # <<>>

(***************************************************************************)
(* Properties.                                                             *)
(***************************************************************************)
\* C1: a query that DetectPsqlCommandQuery recognises fails in wireHandler
\* with a feature-not-supported error that carries the suggested rewrite
\* ("show tables;" for \dt), no upstream request is issued for it, and the
\* session stays ready for the next query.
C1_InterceptedWithoutUpstream ==
    (last.op = "wireHandler" /\ DetectPsqlCommandQuery(last.query).isPsqlCommand)
        => /\ last.state = "Intercepted"
           /\ last.err.code = "FeatureNotSupported"
           /\ last.err.cause.args[2] = DetectPsqlCommandQuery(last.query).suggestedQuery
           /\ (Normalize(last.query) = dtPattern => last.err.cause.args[2] = ShowTables)
           /\ last.requests = <<>>
           /\ session[last.conn] = "ready"

\* C1, as far as it holds: the streaming build intercepts as claimed.
C1_StreamingIntercepts == variant = "streaming" => C1_InterceptedWithoutUpstream

\* C2: auth returns authorized = true only if the probe returned one column
\* and one row whose value is the number 1.
C2_AuthorizedOnlyIfProbeIsOne ==
    (last.op = "auth" /\ last.authorized) => ProbeIsOne(last.resp)

\* C3: auth with an empty username fails, with an error, whatever the
\* password, and sends no request upstream.
C3_EmptyUsernameRejected ==
    (last.op = "auth" /\ last.username = "")
        => /\ ~last.authorized
           /\ last.err # NoErr
           /\ last.requests = <<>>
           /\ session[last.conn] = "closed"

C3_Witness ==
    /\ last.op = "auth" /\ last.username = "" /\ last.password = "tokB"
    /\ ~last.authorized

\* C4: a successful auth returns a context whose credential is exactly the
\* password supplied; a failed auth returns the context it was given, with
\* no credential bound.
C4_CredentialBoundOnlyOnSuccess ==
    last.op = "auth"
        => /\ ctx[last.conn] = last.ctx
           /\ IF last.authorized
              THEN last.ctx # EmptyCtx /\ last.ctx[1] = last.password
              ELSE last.ctx = last.before /\ last.ctx = EmptyCtx

C4_Witness ==
    /\ last.op = "auth" /\ last.conn = "c2" /\ ~last.authorized
    /\ last.requests # <<>>
    /\ ctx["c2"] = EmptyCtx
    /\ session["c1"] = "ready" /\ ctx["c1"] = <<"tokA">>

C6_UpstreamErrorKeepsSession ==
    (last.op = "wireHandler" /\ last.requests # <<>> /\ last.resp.status \notin {0, 200})
        => /\ last.state = "Failed"
           /\ last.err.cause.args = <<Itoa(last.resp.status), BodyText(last.resp.body)>>
           /\ last.err.code = "SyntaxErrorOrAccessRuleViolation"
           /\ last.err.severity \notin {"FATAL", "PANIC"}
           /\ session[last.conn] = "ready"

\* C7: no response body and no Arrow reader stays open once no query of the
\* connection is in flight: after auth, after a failed wireHandler, after a
\* row handler ended, and when the statement was never executed.
C7_NothingLeftOpen ==
    \A c \in Conns :
        (session[c] = "closed" \/ stmt[c].state \notin {"SchemaMapped", "Streaming"})
            => openBodies[c] = 0 /\ openReaders[c] = 0

\* C7, as far as it holds: nothing stays open on any path but the one where
\* the statement is dropped before its row handler ran.
C7_ReleasedUnlessNeverExecuted ==
    \A c \in Conns :
        /\ openBodies[c] \in {0, 1} /\ openReaders[c] \in {0, 1}
        /\ (last.op # "terminateConn" /\ session[c] # "closed"
              /\ stmt[c].state \notin {"SchemaMapped", "Streaming"})
             => openBodies[c] = 0 /\ openReaders[c] = 0

\* C8: an authentication failure caused by the probe is reported to the
\* client as invalid credentials, never as an error of the server.
C8_ProbeFailureIsInvalidCredentials ==
    (last.op = "auth" /\ last.requests # <<>> /\ ~last.authorized)
        => last.report = "invalid_password"

\* C9: the SQL text sent upstream is the text the client submitted: every
\* query that is not intercepted goes out as one GET request to the query
\* endpoint whose only parameter, sql, decodes to the submitted text, with
\* the header Authorization: Bearer <the connection's credential>.
C9_ForwardedVerbatim ==
    (last.op = "wireHandler" /\ last.state # "Intercepted")
        => /\ Len(last.requests) = 1
           /\ last.requests[1].method = "GET"
           /\ last.requests[1].url = queryUrl
           /\ SqlParameter(last.requests[1].rawQuery) = last.query
           /\ last.requests[1].authorization = "Bearer " \o ctx[last.conn][1]

C9_Witness ==
    /\ last.op = "wireHandler" /\ last.requests # <<>>
    /\ last.query = SelectSum
    /\ Normalize(last.query) # last.query
    /\ last.state = "SchemaMapped"

\* the oid a kind maps to in the build that runs, "0" if the build fails it
TagOf(kind) ==
    IF variant = "streaming" THEN arrowTypeToPgOid(ArrowType(ArrowId[kind])).oid
    ELSE arrowTypeToPgOidBuffered("col", CHOOSE d \in JsonDatatypes(kind) : TRUE).oid

\* a JSON timestamp given as a bare array counts only if it starts with
\* "Microsecond"
Recognised ==
    \/ variant = "streaming"
    \/ last.dt.t # "array"
    \/ last.dt.v[1].v = "Microsecond"

SupportedKinds ==
    IF variant = "streaming"
    THEN (ScalarKinds \ {"Json"}) \cup {"LargeUtf8"}
    ELSE ScalarKinds \ {"UInt64"}

\* the oid of each mapped kind: the unsigned kinds share the oid of the next
\* wider signed kind
ExpectedOid ==
    [ Utf8 |-> "T_text", LargeUtf8 |-> "T_text", Json |-> "T_json", Boolean |-> "T_bool",
      Int32 |-> "T_int4", UInt16 |-> "T_int4", Int64 |-> "T_int8", UInt32 |-> "T_int8",
      UInt64 |-> "T_int8", Float64 |-> "T_float8", Date32 |-> "T_date",
      Timestamp |-> "T_timestamptz" ]

ArrayTagOf ==
    [ T_text |-> "T__text", T_json |-> "T__json", T_bool |-> "T__bool",
      T_int4 |-> "T__int4", T_int8 |-> "T__int8", T_float8 |-> "T__float8",
      T_date |-> "T__date", T_timestamptz |-> "T__timestamptz" ]

\* C11: a list whose element is a scalar kind the build supports (Timestamp
\* and the unsigned kinds included) maps to the array oid of the element's
\* scalar oid; a list whose element is itself a list fails.
C11_ListMapsToArrayTag ==
    (last.op = "arrowTypeToPgOid" /\ last.depth >= 1)
        => IF last.depth = 1
           THEN (last.kind \in ScalarKinds \cap SupportedKinds)
                    => last.result = Mapped(ArrayTagOf[ExpectedOid[last.kind]])
           ELSE last.result.err # NoErr

\* C12: a null upstream value is written as wire null whatever the type of
\* its column, supported or not, and without an error: a null cell of any
\* Arrow array converts to (nil, nil), and a JSON null becomes nil.
C12_NullIsWireNull ==
    (last.op = "arrowValueToInterface" /\ last.cell.null)
        => last.result = Converted(Nil)

C12_Witness ==
    /\ last.op = "arrowValueToInterface" /\ last.cell.null
    /\ variant = "streaming"
    /\ last.kind = "Float32"
    /\ arrowTypeToPgOid(ArrowType(ArrowId[last.kind])).err # NoErr
    /\ last.result.val = Nil

\* C13: detection does not depend on how the whitespace between the tokens
\* of a query is written: a query respaced with newlines, tabs, doubled
\* blanks or padding is detected exactly as the query itself, and
\* normalizing a normalized query changes nothing.
C13_DetectionIgnoresWhitespace ==
    last.op = "DetectPsqlCommandQuery"
        => LET base == NamedQuery(last.name)
               query == Spaced(base, last.spacing)
           IN  /\ last.result = DetectPsqlCommandQuery(base)
               /\ Normalize(query) = Normalize(base)
               /\ Normalize(Normalize(query)) = Normalize(query)
               /\ DetectPsqlCommandQuery(Normalize(query)) = last.result

C13_Witness ==
    /\ last.op = "DetectPsqlCommandQuery"
    /\ last.name = "d public.spans" /\ last.spacing = "newlines"
    /\ Spaced(NamedQuery(last.name), last.spacing) # NamedQuery(last.name)
    /\ last.result.isPsqlCommand

\* what the detection is to return for each query: the command and the
\* rewrite with the names as the query spells them
Expected(name) ==
    CASE name = "dt" -> Detected(<<"\\", "d", "t">>, ShowTables)
      [] name = "d spans" ->
            Detected(<<"\\", "d", " ">> \o Spans, ShowColumnsFrom \o Spans \o <<";">>)
      [] name = "d public.spans" ->
            Detected(<<"\\", "d", " ">> \o Public \o <<".">> \o Spans,
                     ShowColumnsFrom \o Public \o <<".">> \o Spans \o <<";">>)
      [] name = "d wide" ->
            Detected(<<"\\", "d", " ">> \o WideName, ShowColumnsFrom \o WideName \o <<";">>)
      [] name = "d public.wide" ->
            Detected(<<"\\", "d", " ">> \o Public \o <<".">> \o WideName,
                     ShowColumnsFrom \o Public \o <<".">> \o WideName \o <<";">>)
      [] OTHER -> NotDetected

\* C14: the list-tables query gives ("\dt", "show tables;", true), the
\* describe query naming table T gives ("\d T", "show columns from T;",
\* true), the one naming T and schema S gives ("\d S.T", "show columns from
\* S.T;", true), and every other query gives ("", "", false).
C14_DetectsTheThreeShapes ==
    (last.op = "DetectPsqlCommandQuery" /\ last.spacing = "same")
        => last.result = Expected(last.name)

(***************************************************************************)
(* The textual array literal of the wire protocol, as a client reads it:   *)
(* {e1,e2,...} with elements bare or in double quotes, NULL for a null.    *)
(***************************************************************************)
Malformed == [ok |-> FALSE, elems |-> <<>>]

RECURSIVE ScanElements(_, _, _, _, _)
\* reads the text between the braces from position i on; mode is "start"
\* (an element begins), "bare", "quoted" or "closed" (after a closing quote)
ScanElements(s, i, mode, cur, elems) ==
    LET bareElem == IF cur = <<"N", "U", "L", "L">> THEN NullCell ELSE Cell(cur)
    IN  IF i > Len(s)
        THEN CASE mode = "bare" -> [ok |-> TRUE, elems |-> Append(elems, bareElem)]
               [] mode = "closed" -> [ok |-> TRUE, elems |-> Append(elems, Cell(cur))]
               [] OTHER -> Malformed
        ELSE CASE mode = "start" ->
                    IF s[i] = "\"" THEN ScanElements(s, i + 1, "quoted", <<>>, elems)
                    ELSE IF s[i] \in {",", "{", "}", "\\"} THEN Malformed
                    ELSE ScanElements(s, i + 1, "bare", <<s[i]>>, elems)
               [] mode = "bare" ->
                    IF s[i] = "," THEN ScanElements(s, i + 1, "start", <<>>,
                                                    Append(elems, bareElem))
                    ELSE IF s[i] \in {"\"", "{", "}", "\\"} THEN Malformed
                    ELSE ScanElements(s, i + 1, "bare", Append(cur, s[i]), elems)
               [] mode = "quoted" ->
                    IF s[i] = "\"" THEN ScanElements(s, i + 1, "closed", cur, elems)
                    ELSE IF s[i] = "\\"
                    THEN IF i = Len(s) THEN Malformed
                         ELSE ScanElements(s, i + 2, "quoted", Append(cur, s[i + 1]), elems)
                    ELSE ScanElements(s, i + 1, "quoted", Append(cur, s[i]), elems)
               [] mode = "closed" ->
                    IF s[i] = "," THEN ScanElements(s, i + 1, "start", <<>>,
                                                    Append(elems, Cell(cur)))
                    ELSE Malformed

\* the elements of an array literal of one dimension
DecodeArrayLiteral(s) ==
    IF Len(s) < 2 \/ s[1] # "{" \/ s[Len(s)] # "}" THEN Malformed
    ELSE IF Len(s) = 2 THEN [ok |-> TRUE, elems |-> <<>>]
    ELSE ScanElements(SubSeq(s, 2, Len(s) - 1), 1, "start", <<>>, <<>>)

\* the number a decimal text spells, and -1000000 for a text that spells none
ParseInt(text) ==
    LET neg == text # <<>> /\ text[1] = "-"
        ds == IF neg THEN Tail(text) ELSE text
        val[i \in 0..Len(ds)] ==
            IF i = 0 THEN 0
            ELSE 10 * val[i - 1] + (CHOOSE d \in 0..9 : Digits[d + 1] = ds[i])
    IN  IF ds = <<>> \/ \E i \in 1..Len(ds) : \A d \in 1..10 : Digits[d] # ds[i]
        THEN -1000000
        ELSE IF neg THEN 0 - val[Len(ds)] ELSE val[Len(ds)]

\* an element of a decoded literal equals the upstream element it came from
SameElement(kind, elem, cell) ==
    IF cell.null \/ elem.null THEN cell.null /\ elem.null
    ELSE CASE kind \in TextKinds -> elem.v = cell.v
           [] kind = "Boolean" ->
                  (elem.v \in {<<"t">>, <<"t", "r", "u", "e">>}) = cell.v
           [] kind = "Date32" -> elem.v = FormatDate(cell.v)
           [] kind = "Timestamp" -> elem.v = FormatMicros(cell.v)
           [] OTHER -> ParseInt(elem.v) = cell.v

\* C15: a non-null list of N elements of a supported scalar kind, N in
\* {0, 1, MaxListLen}, is written as one value that, read as the textual
\* array literal of the wire protocol, gives back N elements equal to the
\* originals.
C15_ListRoundTrip ==
    ( /\ last.op = "arrowValueToInterface"
      /\ last.shape \in {"empty", "single", "full"}
      /\ last.kind \in ScalarKinds \cap SupportedKinds )
        => /\ last.result.err = NoErr
           /\ last.result.val.t = "string"
           /\ LET d == DecodeArrayLiteral(last.result.val.v)
              IN  /\ d.ok
                  /\ Len(d.elems) = Len(last.cell.v)
                  /\ \A i \in 1..Len(d.elems) :
                        SameElement(last.kind, d.elems[i], last.cell.v[i])

\* C16: if the client connection closes while a result is being streamed,
\* the row handler stops reading from the upstream stream: once a row has
\* been written to the closed connection no further batch is read and no
\* further row is produced, and when the session ends the response body and
\* the Arrow reader are released.
C16_StopsReadingWhenClientGone ==
    [][\A c \in Conns :
          /\ (session[c] = "gone" /\ stmt[c].lost > 0)
                => /\ stmt'[c].next = stmt[c].next
                   /\ stmt'[c].totalRows = stmt[c].totalRows
          /\ (session[c] = "gone" /\ session'[c] = "closed")
                => openBodies'[c] = 0 /\ openReaders'[c] = 0]_vars

\* the part of C16 the code keeps: when handle returns in a session whose
\* client has gone, the body and the reader are released
C16_ReleasedWhenClientGone ==
    [][\A c \in Conns :
          (session[c] = "gone" /\ session'[c] = "closed")
                => openBodies'[c] = 0 /\ openReaders'[c] = 0]_vars

\* C17: the result set of a query is consumed exactly once and then
\* discarded: over every sequence of invocations of a statement's row
\* handler, rows are emitted by one invocation only, and the Arrow reader
\* and the response body are never read after they were released.
C17_ConsumedExactlyOnce ==
    \A c \in Conns :
        stmt[c].state # "none"
            => /\ stmt[c].emitters <= 1
               /\ stmt[c].staleReads = 0

\* the part of C17 the Arrow build keeps: an invocation that follows the
\* first one emits no row of the earlier response
C17_StreamingEmitsOnce ==
    \A c \in Conns :
        (variant = "streaming" /\ stmt[c].state # "none")
            => /\ stmt[c].emitters <= 1
               /\ stmt[c].runs > 1 => stmt[c].rows = <<>>

\* C18: with two connections authenticated with different passwords and
\* issuing queries in any interleaving, every upstream request made for a
\* query on a connection carries the credential this connection
\* authenticated with: a successful auth binds its password to its own
\* connection, a bound credential never changes, no action of one
\* connection changes the credential of another, each request of a query
\* carries the credential bound to the connection it came in on, and every
\* request goes to the one endpoint URL.
C18_CredentialPerConnection ==
    [][\A c \in Conns :
          /\ (last'.op = "auth" /\ last'.conn = c /\ last'.report = "ok")
                => ctx'[c] # EmptyCtx /\ ctx'[c][1] = last'.password
          /\ ctx[c] # EmptyCtx => ctx'[c] = ctx[c]
          /\ (last'.op # "none" /\ last'.conn # c) => ctx'[c] = ctx[c]
          /\ (last'.op = "wireHandler" /\ last'.conn = c)
                => \A i \in 1..Len(last'.requests) :
                      /\ ctx[c] # EmptyCtx
                      /\ last'.requests[i].authorization = "Bearer " \o ctx[c][1]
          /\ (last'.op \in {"auth", "wireHandler"})
                => \A i \in 1..Len(last'.requests) :
                      last'.requests[i].url = "https://logfire-us.pydantic.dev/v1/query"]_vars

\* both connections are authenticated, with different passwords; c1 has a
\* query under way, and the query that c2 has just sent went upstream with
\* the password of c2
C18_Witness ==
    /\ session["c1"] = "ready" /\ session["c2"] = "ready"
    /\ ctx["c1"] = <<"tokA">> /\ ctx["c2"] = <<"tokB">>
    /\ stmt["c1"].state \in {"SchemaMapped", "Streaming"}
    /\ last.op = "wireHandler" /\ last.conn = "c2"
    /\ Len(last.requests) = 1
    /\ last.requests[1].authorization = "Bearer tokB"

\* the columns of an upstream answer whose type has no mapping: a Float32
\* column of an Arrow schema or of a JSON result
UnmappedColumns(resp) ==
    IF resp.status # 200 THEN {}
    ELSE IF resp.body.kind = "arrow"
    THEN {i \in 1..Len(resp.body.schema) : resp.body.schema[i].type.id = "FLOAT32"}
    ELSE IF resp.body.kind = "json"
    THEN {i \in 1..Len(resp.body.columns) :
              resp.body.columns[i].datatype = JStr("Float32")}
    ELSE {}

\* C20: if any column of the schema the upstream returned has a type with no
\* mapping, wireHandler fails the whole query with a datatype-mismatch error
\* before any row is written to the client: it returns no statement, so no
\* row handler exists to write one, however many columns mapped before.
C20_UnmappedColumnFailsQuery ==
    (last.op = "wireHandler" /\ UnmappedColumns(last.resp) # {})
        => /\ last.state = "Failed"
           /\ last.err.code = "DatatypeMismatch"
           /\ stmt[last.conn] = NoStmt
           /\ last.bodies = 0 /\ last.readers = 0

\* a query fails on its second column, after the first one mapped
C20_Witness ==
    /\ last.op = "wireHandler"
    /\ UnmappedColumns(last.resp) = {2}
    /\ last.state = "Failed"
    /\ last.err.code = "DatatypeMismatch"

\* the steps of one query that the state machine of C19 allows; the JSON
\* build streams and completes (or fails) within one step of handle
Edges ==
    { <<"SchemaMapped", "Streaming">>, <<"Streaming", "Streaming">>,
      <<"Streaming", "Completed">>, <<"Streaming", "Failed">>,
      <<"SchemaMapped", "Completed">>, <<"SchemaMapped", "Failed">>,
      <<"SchemaMapped", "SchemaMapped">> }

\* what wireHandler returned, and where a query stands, agree with the state
\* machine: interception before any upstream call, the upstream call with
\* the connection's credential, the schema mapped before the first row, and
\* never a completion tag together with an error
StateMachineStates ==
    /\ last.op = "wireHandler"
          => /\ last.state \in {"Intercepted", "Failed", "SchemaMapped"}
             /\ last.state = "Intercepted" => last.requests = <<>>
             /\ last.state \in {"Intercepted", "Failed"}
                   => last.err # NoWireError /\ stmt[last.conn] = NoStmt
             /\ last.state # "Intercepted"
                   => /\ Len(last.requests) = 1
                      /\ last.requests[1].authorization
                            = "Bearer " \o ctx[last.conn][1]
             /\ last.state = "SchemaMapped"
                   => /\ last.err = NoWireError
                      /\ stmt[last.conn].state = "SchemaMapped"
    /\ \A c \in Conns :
          stmt[c].state # "none"
             => /\ stmt[c].state \in {"SchemaMapped", "Streaming", "Completed", "Failed"}
                /\ stmt[c].state = "SchemaMapped"
                      => stmt[c].rows = <<>> /\ stmt[c].totalRows = 0
                /\ stmt[c].state = "Completed"
                      => stmt[c].tag # <<>> /\ stmt[c].err = NoErr
                /\ stmt[c].state = "Failed"
                      => stmt[c].tag = <<>> /\ stmt[c].err # NoErr
                /\ stmt[c].state \in {"SchemaMapped", "Streaming"}
                      => stmt[c].tag = <<>> /\ stmt[c].err = NoErr

\* a step of the query of connection c follows an edge of the state machine
FollowsEdge(c) ==
    (stmt[c].state # "none" /\ stmt'[c].state # "none" /\ stmt'[c].id = stmt[c].id)
        => IF stmt[c].state \in {"Completed", "Failed"}
           THEN stmt'[c] = stmt[c]
           ELSE <<stmt[c].state, stmt'[c].state>> \in Edges

\* C19: each query follows the state machine Received -> Intercepted, or
\* Received -> Executing -> SchemaMapped -> Streaming -> Completed, or
\* Received -> Executing -> ... -> Failed: it reaches one terminal state and
\* never leaves it, never reports both a completion tag and an error, and
\* its steps happen in this order only.
C19_FollowsStateMachine ==
    /\ []StateMachineStates
    /\ [][\A c \in Conns : FollowsEdge(c)]_vars

\* the part of C19 the code keeps: up to the end of the first invocation of
\* its row handler a query follows the state machine
C19_FirstRunFollowsStateMachine ==
    /\ []StateMachineStates
    /\ [][\A c \in Conns : FollowsEdge(c) \/ stmt'[c].runs > stmt[c].runs]_vars

\* the values the conversion of values has no case for: the non-null cells
\* of a LargeUtf8 column; <<k, i, j>> is row i (from 1) of batch k, column j
Unconvertible(src) ==
    { t \in (1..Len(src.batches)) \X (1..MaxRows + 1) \X (1..Len(src.schema)) :
        /\ t[2] <= src.batches[t[1]].numRows
        /\ src.schema[t[3]].type.id = "LARGE_STRING"
        /\ ~src.batches[t[1]].columns[t[3]][t[2]].null }

\* t comes before u in the order handle visits the values of a result
Earlier(t, u) ==
    \/ t[1] < u[1]
    \/ t[1] = u[1] /\ t[2] < u[2]
    \/ t[1] = u[1] /\ t[2] = u[2] /\ t[3] <= u[3]

\* where the first invocation of handle stands on a result that holds a
\* value it cannot convert, once it has read the batch of that value
StoppedAt(st, t) ==
    /\ st.state = "Failed"
    /\ st.next = t[1] + 1
    /\ st.totalRows = RowsBefore([k \in 1..Len(st.src.batches) |->
                                     st.src.batches[k].numRows], t[1]) + t[2] - 1
    /\ Len(st.rows) + st.lost = st.totalRows
    /\ st.tag = <<>> /\ st.completes = 0
    /\ st.err.fmt = "failed to convert column %d row %d: %w"
    /\ st.err.args[1] = Itoa(t[3] - 1)
    /\ st.err.args[2] = Itoa(t[2] - 1)

FailureStops ==
    \A c \in Conns :
        (variant = "streaming" /\ stmt[c].state # "none" /\ stmt[c].runs = 1)
            => /\ \A t \in Unconvertible(stmt[c].src) :
                     ( /\ t[1] < stmt[c].next
                       /\ \A u \in Unconvertible(stmt[c].src) : Earlier(t, u) )
                         => StoppedAt(stmt[c], t)
               /\ ( /\ stmt[c].src.broken
                    /\ stmt[c].state \in {"Completed", "Failed"} )
                         => /\ stmt[c].state = "Failed"
                            /\ stmt[c].tag = <<>> /\ stmt[c].completes = 0
                            /\ stmt[c].err = Errorf("error reading arrow stream: %w", <<>>)
                            /\ stmt[c].next = Len(stmt[c].src.batches) + 1
                            /\ Len(stmt[c].rows) + stmt[c].lost = stmt[c].totalRows

\* rows once written stay written, and a failed invocation writes no more
RowsStayWritten ==
    \A c \in Conns :
        ( /\ stmt[c].state # "none" /\ stmt'[c].state # "none"
          /\ stmt'[c].id = stmt[c].id /\ stmt'[c].runs = stmt[c].runs )
            => /\ Len(stmt'[c].rows) >= Len(stmt[c].rows)
               /\ SubSeq(stmt'[c].rows, 1, Len(stmt[c].rows)) = stmt[c].rows
               /\ stmt[c].state = "Failed"
                    => /\ stmt'[c].rows = stmt[c].rows
                       /\ stmt'[c].tag = <<>>
                       /\ stmt'[c].next = stmt[c].next

\* C21: if a value fails conversion, or the upstream stream reports a read
\* error, in the middle of streaming, the row handler stops: it emits no
\* further row and no completion tag, returns an error naming the column and
\* the row index within its batch (or the stream error), and the rows it
\* wrote before the failure stay written.
C21_FailureStopsTheStream ==
    /\ []FailureStops
    /\ [][RowsStayWritten]_vars

\* the second batch of a result holds in its first row, second column, a
\* value that does not convert: the row of the first batch stays written
C21_Witness ==
    /\ variant = "streaming"
    /\ stmt["c1"].state = "Failed"
    /\ Len(stmt["c1"].rows) = 1
    /\ stmt["c1"].next = 3
    /\ stmt["c1"].err.fmt = "failed to convert column %d row %d: %w"
    /\ stmt["c1"].err.args[1] = <<"1">>
    /\ stmt["c1"].err.args[2] = <<"0">>

\* the wire value that a cell of an Int64 or Utf8 column of an Arrow batch
\* is to arrive as
ArrivesAs(id, cell) ==
    IF cell.null THEN Nil
    ELSE IF id = "INT64" THEN WFloat(cell.v) ELSE WStr(cell.v)

\* the wire value that a JSON value is to arrive as: a string as it is, a
\* number in decimal
ArrivesAsBuffered(val) ==
    IF val.t = "null" THEN Nil
    ELSE IF val.t = "string" THEN WStr(val.v)
    ELSE WStr(Itoa(val.v))

\* streaming: row i of batch k stands at place (rows of batches 1..k-1) + i
InBatchOrder(st) ==
    LET sizes == [k \in 1..Len(st.src.batches) |-> st.src.batches[k].numRows]
    IN  \A k \in 1..Len(st.src.batches) :
        \A i \in 1..sizes[k] :
        \A j \in 1..Len(st.src.schema) :
            ( /\ RowsBefore(sizes, k) + i <= Len(st.rows)
              /\ st.src.schema[j].type.id \in {"INT64", "STRING"} )
                => st.rows[RowsBefore(sizes, k) + i][j]
                      = ArrivesAs(st.src.schema[j].type.id,
                                  st.src.batches[k].columns[j][i])

\* buffered: row i holds index i of every column's values
InIndexOrder(st) ==
    \A i \in 1..Len(st.rows) :
    \A j \in 1..Len(st.src.columns) :
        /\ i <= Len(st.src.columns[j].values)
        /\ st.rows[i][j] = ArrivesAsBuffered(st.src.columns[j].values[i])

\* C22: within one query's result, rows reach the client in the order the
\* upstream returned them: streaming, the rows of batch k all come before
\* those of batch k+1 and the rows of a batch are in index order; buffered,
\* row i is built from index i of every column's values and the rows are
\* emitted for i = 0, 1, ..., n-1.  A completed result holds every row.
C22_RowsInUpstreamOrder ==
    \A c \in Conns :
        stmt[c].state \in {"Streaming", "Completed", "Failed"}
            => IF variant = "streaming"
               THEN /\ InBatchOrder(stmt[c])
                    /\ (stmt[c].state = "Completed" /\ stmt[c].runs = 1)
                          => Len(stmt[c].rows)
                                = RowsBefore([k \in 1..Len(stmt[c].src.batches) |->
                                                 stmt[c].src.batches[k].numRows],
                                             Len(stmt[c].src.batches) + 1)
               ELSE /\ InIndexOrder(stmt[c])
                    /\ stmt[c].state = "Completed"
                          => Len(stmt[c].rows) = NumRowsBuffered(stmt[c].src.columns)

\* three rows that came in a batch of one and a batch of two have arrived
C22_Witness ==
    /\ variant = "streaming"
    /\ stmt["c1"].state = "Completed"
    /\ Len(stmt["c1"].src.batches) = 2
    /\ stmt["c1"].src.batches[1].numRows = 1
    /\ Len(stmt["c1"].rows) = 3
    /\ stmt["c1"].rows[1][Len(stmt["c1"].src.schema)] = WFloat(1)
    /\ stmt["c1"].rows[3][Len(stmt["c1"].src.schema)] = WFloat(3)

\* every row written has as many values as the column descriptor list of
\* its query announced
RowsAsWideAsColumns ==
    \A c \in Conns :
        stmt[c].state # "none"
            => \A i \in 1..Len(stmt[c].rows) :
                  Len(stmt[c].rows[i]) = Len(stmt[c].columns)

\* C23: every row written to the client has exactly as many values as the
\* column descriptor list announced for the query, for every upstream
\* response that decodes; in the buffered variant building row i never
\* reads past the end of a column's values, and every value of every column
\* is in a row of the completed result.
C23_RowsMatchColumns ==
    /\ RowsAsWideAsColumns
    /\ \A c \in Conns :
          (variant = "buffered" /\ stmt[c].state \in {"Completed", "Failed"})
              => /\ stmt[c].err.fmt # "panic: runtime error: index out of range"
                 /\ \A j \in 1..Len(stmt[c].src.columns) :
                       Len(stmt[c].src.columns[j].values) = Len(stmt[c].rows)

\* the part of C23 the code keeps, in both builds
C23_RowWidth == RowsAsWideAsColumns

\* the instant of a raw timestamp of a unit, in microseconds since the
\* epoch, with what is below a microsecond cut off
InstantMicros(unit, raw) ==
    CASE unit = "Second" -> raw * 1000000
      [] unit = "Millisecond" -> raw * 1000
      [] unit = "Microsecond" -> raw
      [] unit = "Nanosecond" -> raw \div 1000

\* text of the form YYYY-MM-DDTHH:MM:SS.ffffffZ
FixedForm(text) ==
    /\ Len(text) = 27
    /\ text[5] = "-" /\ text[8] = "-" /\ text[11] = "T"
    /\ text[14] = ":" /\ text[17] = ":" /\ text[20] = "." /\ text[27] = "Z"
    /\ \A i \in (1..26) \ {5, 8, 11, 14, 17, 20} :
          \E d \in 1..10 : text[i] = Digits[d]

\* C24: for a Timestamp column of any source unit (second, millisecond,
\* microsecond, nanosecond), the emitted string denotes the same instant as
\* the upstream value, truncated to microsecond precision, in UTC, in the
\* fixed form YYYY-MM-DDTHH:MM:SS.ffffffZ.
C24_SameInstantAnyUnit ==
    last.op = "timestampValue"
        => /\ last.result.err = NoErr
           /\ last.result.val.t = "string"
           /\ FixedForm(last.result.val.v)
           /\ last.result.val.v = FormatMicros(InstantMicros(last.unit, last.raw))

\* the part of C24 the code keeps: the form is fixed for every unit, and the
\* instant is right for a column in microseconds
C24_MicrosecondColumns ==
    last.op = "timestampValue"
        => /\ last.result.err = NoErr
           /\ last.result.val.t = "string"
           /\ FixedForm(last.result.val.v)
           /\ last.unit = "Microsecond"
                 => last.result.val.v = FormatMicros(InstantMicros(last.unit, last.raw))
           /\ (last.unit = "Microsecond" /\ last.raw = 1500)
                 => last.result.val.v =
                      << "1", "9", "7", "0", "-", "0", "1", "-", "0", "1", "T",
                         "0", "0", ":", "0", "0", ":", "0", "0", ".",
                         "0", "0", "1", "5", "0", "0", "Z" >>

\* C25: the type mapping fails with a mapping error for every list whose
\* element kind is JSON and for every list whose element kind is one the
\* build does not map; it never returns an array oid for such a list.
C25_ListOfJsonOrUnsupportedFails ==
    ( /\ last.op = "arrowTypeToPgOid" /\ last.depth = 1
      /\ (last.kind = "Json" \/ last.kind \notin SupportedKinds) )
        => last.result.err # NoErr /\ last.result.oid = "0"

\* the part of C25 the code keeps: a list of a kind the build does not map
\* fails in both builds, and a list of JSON fails in the Arrow build
C25_ListOfUnsupportedFails ==
    ( /\ last.op = "arrowTypeToPgOid" /\ last.depth = 1
      /\ last.kind \notin SupportedKinds )
        => last.result.err # NoErr /\ last.result.oid = "0"

====
